---- MODULE Spec2Model ----
(***************************************************************************)
(* Model of the ticket-creation run of the customer-support UI agent:      *)
(* the ui_agent.create_ticket shim (agents/ui_agent.py) and the            *)
(* GenericUIAgent.create_ticket orchestrator (agents/generic_ui_agent.py). *)
(* One behaviour is one top-level create_ticket call.  The caller's        *)
(* inputs and the environment (provider store, adapter registry, flags)    *)
(* are fixed in Init; what the page, the browser, the inference            *)
(* collaborator and the adapter answer is chosen when the code asks.       *)
(***************************************************************************)
EXTENDS Integers, Sequences, FiniteSets, TLC

\* ------------------------------------------------------------------ bounds
\* Longest mailbox poll timeout, in ticks.
MaxPollTimeout == 2
\* Longest time one mailbox poll or one look at the page takes, in ticks.
MaxOpTicks == 2
\* POST_PASSCODE_WAIT_MS, in ticks.
MaxLoginWait == 2
\* Longest step list handed to the run.
MaxSteps == 2
\* Longest candidate list handed to safe_fill / safe_click.
MaxCands == 2
\* Records made on the stats table in one behaviour.
MaxRecords == 2
\* Longest submit_selectors list of a provider config.
MaxSubmitSelectors == 2
\* Most frames page.frames lists.
MaxFrames == 2
\* Longest list or dict inside a logged step.
MaxItems == 2
\* Most register_adapter calls in a behaviour.
MaxRegistrations == 2

\* ---------------------------------------------------------- python values
\* A value of intent["steps"] / inferred["steps"]: None, a list of steps, or a
\* truthy value that is neither (JSON number), as an unvalidated LLM reply may hold.
PyNone == [kind |-> "none", items |-> <<>>]
PyNum == [kind |-> "num", items |-> <<>>]
PyList(s) == [kind |-> "list", items |-> s]
Truthy(v) == v.kind = "num" \/ (v.kind = "list" /\ v.items # <<>>)

Actions == {"click", "fill"}
StepLists == UNION {[1..n -> Actions] : n \in 0..MaxSteps}
NonEmptyStepLists == StepLists \ {<<>>}

\* ------------------------------------------------------------ name handling
\* str.strip() and str.lower() on the provider names the model uses.
Strip(s) == CASE s = "Zendesk " -> "Zendesk"
              [] s = " Dummy " -> "Dummy"
              [] s = " " -> ""
              [] OTHER -> s
Lower(s) == CASE s = "Zendesk" -> "zendesk"
              [] s = "Dummy" -> "dummy"
              [] s = "Zendesk " -> "zendesk "
              [] OTHER -> s
\* str(x).split(".")[-1]
LastDot(s) == IF s = "pkg.zendesk" THEN "zendesk" ELSE s

None == "<None>"
RawProviders == {"", "Zendesk ", "acme"}
BuiltinAdapters == {"freshdesk", "zendesk"}

\* ------------------------------------------------------------- provider cfg
\* provider_configs.get(provider, {}): only the keys the run reads.
\* base_url: "" absent/empty, "url" a string template, "null" a non-string value.
EmptyCfg == [login |-> FALSE, base_url |-> "", adapter |-> ""]
Cfgs == [login : BOOLEAN, base_url : {"", "url", "null"}, adapter : {"", "pkg.zendesk"}]

\* ------------------------------------------------------------------ results
NoResult == [none |-> TRUE]
ResError(msg) == [status |-> "error", error |-> msg]
ResDryRun(s) == [status |-> "dry-run", steps |-> s]
ResFinal(isOk, n) == [status |-> IF isOk THEN "ok" ELSE "failed", executed_steps |-> n]
\* {provider: adapter_res}
ResKeyed(p, r) == [key |-> p, value |-> r]

\* What an adapter's create_ticket hands back: a dict, with or without "raw".
AdapterResults ==
    { [status |-> "ok", raw |-> TRUE, error |-> ""],
      [status |-> "ok", raw |-> FALSE, error |-> ""],
      [status |-> "error", raw |-> FALSE, error |-> "api"] }
NoRes == [status |-> "", raw |-> FALSE, error |-> ""]
AdapterReplies ==
    {[raised |-> TRUE, res |-> NoRes]} \cup {[raised |-> FALSE, res |-> r] : r \in AdapterResults}

VARIABLES
    \* inputs and environment
    providerArg, fileExists, store, cfg, ADAPTERS, dry_run, is_persistent,
    DEBUG_RETURN_RAW, USE_MOCK_DOM, intent,
    \* control
    pc, browser, steps, idx, ok, pendingKind, pendingValue, agentResult, result, outcome,
    \* history
    exitPath, adapterLog, closeCalls, uiSteps, submitAttempts, submitOk, inferCalls,
    llmCalls, loginAttempts, loginFail, boundaryRuns, ssoSeen, ssoMarker, inferReply

inputs == <<providerArg, fileExists, store, cfg, ADAPTERS, dry_run, is_persistent,
            DEBUG_RETURN_RAW, USE_MOCK_DOM>>
control == <<pc, browser, steps, idx, ok, pendingKind, pendingValue, agentResult, result, outcome>>
history == <<exitPath, adapterLog, closeCalls, uiSteps, submitAttempts, submitOk, inferCalls,
             llmCalls, loginAttempts, loginFail, boundaryRuns, ssoSeen, ssoMarker, inferReply>>

\* History of the shim: how many times get_agent() was called.
VARIABLE agentsBuilt

\* ----------------------------------------------------- locator statistics
\* The state of the selector scorer and of safe_fill / safe_click, checked on
\* its own under SpecStats.
VARIABLES
    selector_stats,   \* self.selector_stats: selector -> {tries, successes}
    statsFile,        \* logs/selector_stats.json: a table, or NoFile
    spc,              \* "new" before __init__ loaded the table, "idle", "trying"
    call,             \* the locals of the safe_fill / safe_click call under way
    ret,              \* what the last call returned
    \* history
    loadedTable,      \* the table as __init__ loaded it
    recN, recS,       \* per selector: records and successful records since the load
    callBefore,       \* selector_stats when the call under way began
    callLog,          \* the records the call made, in order
    orderIn, orderOut \* the last _score_and_order_selectors call and its answer

statsVars == <<selector_stats, statsFile, spc, call, ret, loadedTable, recN, recS,
               callBefore, callLog, orderIn, orderOut>>

\* ------------------------------------------------------- submit resolver
\* The state of one _attempt_submit call, checked on its own under SpecSubmit.
VARIABLES
    submit_selectors, \* cfg["submit_selectors"]
    pageFrames,       \* how many frames page.frames lists, or FramesRaise
    subpc,            \* "begin", "frames", "keyboard", "form", "done"
    dedup,            \* the deduplicated candidate list
    frames,           \* the documents searched: 0 is the page, k is page.frames[k]
    fi, ci,           \* position of the two loops
    subret,           \* what the call returned
    \* history
    visited,          \* the (document, candidate) pairs taken up, in order
    keyboardTried, formTried,
    succeeded,        \* the strategies that went through, in order
    failedKinds,      \* the strategies that raised or answered false
    lastTry           \* the strategy attempted last

submitVars == <<submit_selectors, pageFrames, subpc, dedup, frames, fi, ci, subret,
                visited, keyboardTried, formTried, succeeded, failedKinds, lastTry>>

\* ----------------------------------------------------- fill value of a step
\* One fill step of execute_steps resolving its value, checked under SpecValue.
VARIABLES
    fillStep,         \* the step: value, value_source, valueFrom, source, target
    fillIntent,       \* the intent: top-level keys and "fields"
    vpc,              \* "resolve", "done"
    fillVal           \* the value handed to safe_fill, or Raised

valueVars == <<fillStep, fillIntent, vpc, fillVal>>

\* ------------------------------------------------------------- audit log
\* One call of _log_step and the file logs/steps.jsonl, checked under SpecLog.
VARIABLES
    logStep,          \* the step argument of _log_step
    logExtra,         \* the extra argument of _log_step
    lpc,              \* "log", "done"
    logFile,          \* the lines of steps.jsonl, oldest first
    loggerOut         \* what was handed to logger.info, oldest first

logVars == <<logStep, logExtra, lpc, logFile, loggerOut>>

\* ------------------------------------------------------- adapter registry
\* The module-level registry of adapters/__init__.py, checked under
\* SpecRegistry.
VARIABLES
    registry,         \* the dict ADAPTERS: name -> adapter object
    registrations,    \* the register_adapter calls made, in order
    lastGet           \* the last get_adapter call and its answer

registryVars == <<registry, registrations, lastGet>>

\* --------------------------------------------------------- provider adapter
\* One create_ticket call on a built-in adapter, checked under SpecAdapter.
VARIABLES
    adapterKind,      \* "freshdesk" or "zendesk"
    credentials,      \* the adapter's credentials are configured
    adapterPayload,          \* the intent handed to create_ticket
    http,             \* what the HTTP call does: "ok", "http_error", "transport_error"
    debugRaw,         \* _DEBUG_RETURN_RAW of adapters/__init__.py
    apc,              \* "call", "done"
    adapterOut        \* what create_ticket did: raised, or the dict returned

adapterVars == <<adapterKind, credentials, adapterPayload, http, debugRaw, apc, adapterOut>>

\* ------------------------------------------------- one Fill / Click in detail
\* What each attempt of one safe_fill / safe_click call did, checked under
\* SpecAction together with the scorer's variables.
VARIABLES
    trace             \* one entry per attempt of the call, in order

traceVars == <<trace>>

\* ------------------------------------------------- runs sharing the stats file
\* Two agents, each with its own selector_stats, recording into the one file
\* logs/selector_stats.json, checked under SpecRuns.
VARIABLES
    runTable,         \* per run: self.selector_stats
    runPc,            \* per run: "new" before __init__ loaded the table, "idle",
                      \* or "writing" between the open and the write of write_text
    sharedFile,       \* logs/selector_stats.json: what a reader gets from it
    fileSize,         \* the length of the file
    \* history
    runLoaded,        \* per run: the table as __init__ loaded it
    runRecN, runRecS, \* per run and selector: records and successful records made
    lastSave,         \* the latest record: its run, how the write went, the run's table
    lastWritten       \* the latest write that went through: its run and table

runsVars == <<runTable, runPc, sharedFile, fileSize, runLoaded, runRecN, runRecS, lastSave, lastWritten>>

\* --------------------------------------------------------- execute_steps
\* One call of execute_steps step by step, checked under SpecSteps.
VARIABLES
    stepSeq,          \* steps
    stepIntent,       \* intent
    si,               \* position of the loop, from 1
    epc,              \* "off", "loop", "returned"
    execRet,          \* what the call returned
    \* history
    stepLog           \* one entry per step taken up, in order

stepsVars == <<stepSeq, stepIntent, si, epc, execRet, stepLog>>

\* ------------------------------------------------- login after the click
\* _attempt_login from the login click on: the passcode prompt, the two passcode
\* sources, the passcode field and the wait for the post-login page, checked
\* under SpecLogin. Time is counted in ticks of the wall clock.
VARIABLES
    imapUser,         \* EMAIL_IMAP_USER and EMAIL_IMAP_PASSWORD are set
    timeout_seconds,  \* EMAIL_IMAP_POLL_TIMEOUT_S
    poll_interval,    \* EMAIL_IMAP_POLL_INTERVAL_S
    gpc,              \* "off", "clicked", "imap", "poll", "inbox", "fill", "confirm", "returned"
    clock,            \* time.time()
    deadline,         \* deadline of _fetch_passcode_via_imap
    waitStart,        \* start of _wait_for_login_completion
    passcode,         \* the passcode in hand, or None
    loginRet,         \* what _attempt_login returned, once gpc is "returned"
    \* history
    fetchLog,         \* the passcode sources asked, in order
    polls,            \* mailbox polls made
    lastPollAt,       \* the clock when the latest poll began
    fillTried         \* the loop over the passcode selectors ran

loginVars == <<imapUser, timeout_seconds, poll_interval, gpc, clock, deadline, waitStart,
               passcode, loginRet, fetchLog, polls, lastPollAt, fillTried>>

\* ------------------------------------------------- mock DOM step generator
\* parse_instruction's attachment of the generated steps and the inference call
\* of the agent under the USE_MOCK_DOM flag, checked under SpecMock.
VARIABLES
    useMock,          \* USE_MOCK_DOM as both places read it
    parsedIn,         \* the normalised parse handed to generate_dom_steps
    mpc,              \* "off", "parse", "parsed", "inferred"
    finalIntent,      \* steps and fields of the parsed object
    inferOut,         \* what infer_steps_with_llm returned
    \* history
    bundles,          \* what each call of generate_dom_steps returned
    llmAsked          \* calls of the LLM

mockVars == <<useMock, parsedIn, mpc, finalIntent, inferOut, bundles, llmAsked>>

\* Everything outside the orchestrator run.
aux == <<statsVars, submitVars, valueVars, logVars, registryVars, adapterVars, traceVars, runsVars, stepsVars, loginVars, mockVars>>
\* The orchestrator run's own variables.
runVars == <<inputs, intent, control, history, agentsBuilt>>
vars == <<runVars, aux>>

\* ------------------------------------------------------------------ helpers
\* ui_agent.create_ticket: pname = str(provider).strip().lower()
pname == Lower(Strip(providerArg))
\* GenericUIAgent.create_ticket: provider = (provider or "").lower()
provider == Lower(pname)

get_adapter(name) ==
    IF name = "" THEN None
    ELSE IF Lower(Strip(name)) \in ADAPTERS THEN Lower(Strip(name)) ELSE None

\* Variant: every non-empty name passes the validation.
_provider_config_exists_AnyName(p) == p # ""

_provider_config_exists(p) ==
    IF p = "" THEN FALSE
    ELSE IF fileExists THEN TRUE
    ELSE get_adapter(p) # None

_resolve_adapter(p, c) ==
    IF c.adapter # "" /\ get_adapter(c.adapter) # None THEN get_adapter(c.adapter)
    ELSE IF c.adapter # "" /\ get_adapter(LastDot(c.adapter)) # None
         THEN get_adapter(LastDot(c.adapter))
    ELSE get_adapter(p)

\* What adapter a can answer to create_ticket. The built-in adapters put "raw"
\* in their result only under _DEBUG_RETURN_RAW; a registered custom adapter
\* answers as it likes. Without an adapter there is no call and no answer.
RepliesOf(a) ==
    IF a = None THEN {[raised |-> TRUE, res |-> NoRes]}
    ELSE {r \in AdapterReplies : (a \in BuiltinAdapters /\ ~DEBUG_RETURN_RAW) => ~r.res.raw}

\* Variant: the adapter's result is handed back as it came.
StripRaw_Never(r) == r

\* if not _DEBUG_RETURN_RAW and "raw" in adapter_res: adapter_res.pop("raw")
StripRaw(r) == IF ~DEBUG_RETURN_RAW /\ r.raw THEN [r EXCEPT !.raw = FALSE] ELSE r

\* Variant: a return or a raise leaves the with block without the finally clause.
FinallyTarget_Skipped == "pw_exit"

\* Where a return or a raise inside the inner try goes first: the finally clause.
FinallyTarget == "close"

\* Variant: the fallback sites report the error without asking the adapter.
AdapterFallback_NoAdapter(reply, msg) == ResError(msg)

\* The three in-run fallback sites share one shape; msg is the site's error text.
AdapterFallback(reply, msg) ==
    IF _resolve_adapter(provider, cfg) = None THEN ResError(msg)
    ELSE IF reply.raised
         THEN ResKeyed(provider, [status |-> "error", raw |-> FALSE, error |-> "adapter fallback failed"])
    ELSE ResKeyed(provider, StripRaw(reply.res))

\* adapter.create_ticket is called only when an adapter resolved.
LogAdapterCall(reply) ==
    adapterLog' = IF _resolve_adapter(provider, cfg) = None THEN adapterLog
                  ELSE Append(adapterLog, reply)

\* ------------------------------------------------- selector scorer (pure)
\* The selectors a step may name.
Locators == {"#a", "#b"}
\* selectors: the candidate lists handed to safe_fill / safe_click.
CandLists == UNION {[1..n -> Locators] : n \in 0..MaxCands}

NoEntry == [tries |-> 0, successes |-> 0]
EmptyTable == [x \in {} |-> NoEntry]
\* self.selector_stats.get(s, {}) with .get("tries", 0) / .get("successes", 0)
Entry(t, s) == IF s \in DOMAIN t THEN t[s] ELSE NoEntry

\* score(s): 0.0 without tries, else succ / tries. A score is kept as the
\* fraction <<numerator, denominator>>; 0.0 is <<0, 1>>.
\* Variant: a locator never attempted gets the best score instead of the worst.
score_UnknownOptimistic(t, s) ==
    IF Entry(t, s).tries = 0 THEN <<1, 1>>
    ELSE <<Entry(t, s).successes, Entry(t, s).tries>>

score(t, s) ==
    IF Entry(t, s).tries = 0 THEN <<0, 1>>
    ELSE <<Entry(t, s).successes, Entry(t, s).tries>>
\* Comparison and equality of two scores as numbers.
ScoreGT(a, b) == a[1] * b[2] > b[1] * a[2]
ScoreEQ(a, b) == a[1] * b[2] = b[1] * a[2]

\* Variant: x goes before the elements of equal score as well.
RECURSIVE InsertByScore_Unstable(_, _, _)
InsertByScore_Unstable(t, out, x) ==
    IF out = <<>> THEN <<x>>
    ELSE IF ~ScoreGT(score(t, Head(out)), score(t, x)) THEN <<x>> \o out
    ELSE <<Head(out)>> \o InsertByScore_Unstable(t, Tail(out), x)

\* Where sorted(..., reverse=True) puts x in an already ordered list: before the
\* first element of strictly lower score, so after every element of equal score.
RECURSIVE InsertByScore(_, _, _)
InsertByScore(t, out, x) ==
    IF out = <<>> THEN <<x>>
    ELSE IF ScoreGT(score(t, x), score(t, Head(out))) THEN <<x>> \o out
    ELSE <<Head(out)>> \o InsertByScore(t, Tail(out), x)

RECURSIVE SortedByScore(_, _, _)
SortedByScore(t, rest, acc) ==
    IF rest = <<>> THEN acc
    ELSE SortedByScore(t, Tail(rest), InsertByScore(t, acc, Head(rest)))

\* ordered = sorted(selectors, key=lambda x: score(x), reverse=True)
\* Variant: the candidates are tried in the order given.
_score_and_order_selectors_AsGiven(t, selectors) == selectors

_score_and_order_selectors(t, selectors) == SortedByScore(t, selectors, <<>>)

\* Variant: a try is counted only when the attempt failed.
\* Variant: the table is cut down to the entry just recorded.
_update_selector_stats_OnlyLatest(t, s, success) ==
    [x \in {s} |->
        [tries |-> Entry(t, s).tries + 1,
         successes |-> Entry(t, s).successes + (IF success THEN 1 ELSE 0)]]

_update_selector_stats_FailuresOnly(t, s, success) ==
    [x \in DOMAIN t \cup {s} |->
        IF x = s
        THEN [tries |-> Entry(t, s).tries + (IF success THEN 0 ELSE 1),
              successes |-> Entry(t, s).successes + (IF success THEN 1 ELSE 0)]
        ELSE t[x]]

\* st = setdefault(selector, {tries: 0, successes: 0}); st["tries"] += 1;
\* if success: st["successes"] += 1
_update_selector_stats(t, s, success) ==
    [x \in DOMAIN t \cup {s} |->
        IF x = s
        THEN [tries |-> Entry(t, s).tries + 1,
              successes |-> Entry(t, s).successes + (IF success THEN 1 ELSE 0)]
        ELSE t[x]]

\* What logs/selector_stats.json can hold: nothing readable, or a table that
\* _save_selector_stats wrote in an earlier run (every entry was made by
\* _update_selector_stats, so it has at least one try).
NoFile == [readable |-> FALSE, table |-> EmptyTable]
FileOf(t) == [readable |-> TRUE, table |-> t]
WrittenEntries ==
    { [tries |-> 1, successes |-> 0], [tries |-> 1, successes |-> 1],
      [tries |-> 2, successes |-> 1] }
WrittenTables == UNION {[D -> WrittenEntries] : D \in SUBSET Locators}

\* Variant: a table read from the file is taken with its counters swapped.
_load_selector_stats_Swapped(file) ==
    IF ~file.readable THEN EmptyTable
    ELSE [x \in DOMAIN file.table |->
             [tries |-> file.table[x].successes, successes |-> file.table[x].tries]]

\* json.loads(SELECTOR_STATS_FILE.read_text()) when the file exists, else {}
_load_selector_stats(file) == IF ~file.readable THEN EmptyTable ELSE file.table

\* per_selector_retries: 1 by default, 2 from execute_steps, 0 at the edge.
RetryCounts == {0, 1, 2}

NoCall == [kind |-> "none", selectors |-> <<>>, ordered |-> <<>>, retries |-> 0, i |-> 0, attempt |-> 0]
NoRet == [ok |-> FALSE, used |-> "<unset>"]

\* The scorer's variables while another specification runs.
StatsIdle ==
    /\ selector_stats = EmptyTable
    /\ statsFile = NoFile
    /\ spc = "off"
    /\ call = NoCall
    /\ ret = NoRet
    /\ loadedTable = EmptyTable
    /\ recN = [x \in Locators |-> 0]
    /\ recS = [x \in Locators |-> 0]
    /\ callBefore = EmptyTable
    /\ callLog = <<>>
    /\ orderIn = <<>>
    /\ orderOut = <<>>

\* ------------------------------------------------- submit resolver (pure)
\* The built-in fallback list of _attempt_submit.
BuiltinSubmitSelectors ==
    << "button:has-text('Submit as New')", "button:has-text('Submit')",
       "button:has-text('Save')", "button[type='submit']", "input[type='submit']",
       "button:has-text('Create')", "button[aria-label='Submit']" >>

\* What a provider config lists under submit_selectors: its own selector and
\* one that the built-in list has too.
ProviderSubmitSelectors == {"#send", "button:has-text('Save')"}
SubmitSelectorLists == UNION {[1..n -> ProviderSubmitSelectors] : n \in 0..MaxSubmitSelectors}

\* for c in candidates: if c not in seen: seen.add(c); dedup.append(c)
RECURSIVE Dedup(_, _)
Dedup(candidates, seen) ==
    IF candidates = <<>> THEN <<>>
    ELSE IF Head(candidates) \in seen THEN Dedup(Tail(candidates), seen)
    ELSE <<Head(candidates)>> \o Dedup(Tail(candidates), seen \cup {Head(candidates)})

\* candidates: the provider's selectors, then the built-in list.
SubmitCandidates(own) == own \o BuiltinSubmitSelectors

\* page.frames raised: only the page is searched.
FramesRaise == 0 - 1
\* frames = [page] + list(page.frames)
FramesOf(n) == IF n = FramesRaise THEN <<0>> ELSE <<0>> \o [k \in 1..n |-> k]

\* What one (frame, s) pair of the loops leaves behind: the selector is not in
\* the frame ("skip"), frame.click goes through ("click"), it raises and the
\* scripted click goes through ("js"), or both raise ("fail").
ClickPair(out) ==
    CASE out = "click" -> [succeeded |-> <<"click">>, failed |-> {}, last |-> "click"]
      [] out = "js" -> [succeeded |-> <<"js click">>, failed |-> {"click"}, last |-> "js click"]
      [] out = "fail" -> [succeeded |-> <<>>, failed |-> {"click", "js click"}, last |-> "js click"]
      [] OTHER -> [succeeded |-> <<>>, failed |-> {}, last |-> None]

\* Variant: no plain Enter after a Control+Enter that raised.
KeyboardSubmit_NoSecondary(ctrlEnter, enter) ==
    IF ctrlEnter
    THEN [ok |-> TRUE, succeeded |-> <<"Control+Enter">>, failed |-> {}, last |-> "Control+Enter"]
    ELSE [ok |-> FALSE, succeeded |-> <<>>, failed |-> {"Control+Enter"}, last |-> "Control+Enter"]

\* The keyboard shortcut: Control+Enter, and plain Enter when that raises; the
\* call goes on to the form only when both raise.
KeyboardSubmit(ctrlEnter, enter) ==
    IF ctrlEnter
    THEN [ok |-> TRUE, succeeded |-> <<"Control+Enter">>, failed |-> {}, last |-> "Control+Enter"]
    ELSE IF enter
    THEN [ok |-> TRUE, succeeded |-> <<"Enter">>, failed |-> {"Control+Enter"}, last |-> "Enter"]
    ELSE [ok |-> FALSE, succeeded |-> <<>>, failed |-> {"Control+Enter", "Enter"}, last |-> "Enter"]

\* Variant: the next candidate is looked for in every document before the
\* candidate after it.
NextPair_CandidateMajor(f, c, nf, nc) ==
    IF f < nf THEN <<f + 1, c>> ELSE <<1, c + 1>>

\* for frame in frames: for s in dedup: the pair after (f, c); past the last
\* pair the document index is beyond nf.
NextPair(f, c, nf, nc) ==
    IF c < nc THEN <<f, c + 1>> ELSE <<f + 1, 1>>

NoSubmitRet == [ok |-> FALSE, used |-> "<unset>"]

\* The submit resolver's variables while another specification runs.
SubmitIdle ==
    /\ submit_selectors = <<>>
    /\ pageFrames = 0
    /\ subpc = "off"
    /\ dedup = <<>>
    /\ frames = <<>>
    /\ fi = 0 /\ ci = 0
    /\ subret = NoSubmitRet
    /\ visited = <<>>
    /\ keyboardTried = FALSE
    /\ formTried = FALSE
    /\ succeeded = <<>>
    /\ failedKinds = {}
    /\ lastTry = None

\* ------------------------------------------------ fill value of a step (pure)
\* A string is truthy unless it is missing (None) or empty.
TruthyStr(x) == x # None /\ x # ""
\* a or b on strings
Or(a, b) == IF TruthyStr(a) THEN a ELSE b

\* A reference string is kept as its parts between dots, which is what
\* vs.split(".") makes of it: "fields.subject.value" is <<"fields", "subject",
\* "value">>. NoRef is a missing key.
NoRef == <<>>
References ==
    { NoRef, <<"fields", "subject", "value">>, <<"fields", "assignee", "value">>,
      <<"fields", "subject">>, <<"subject">>, <<"fields">> }
\* vs.startswith("fields."): "fields" itself has no dot.
StartsWithFields(vs) == Len(vs) >= 2 /\ vs[1] = "fields"

FieldNames == {"subject", "assignee"}
\* An entry of intent["fields"]: a dict with or without "value", or a plain
\* string where a dict is expected.
FieldEntries ==
    { [isDict |-> TRUE, value |-> "Login issue"], [isDict |-> TRUE, value |-> None],
      [isDict |-> FALSE, value |-> None] }
\* intent["fields"]: missing, or a dict (possibly empty) of entries.
NoFields == [present |-> FALSE, map |-> [x \in {} |-> None]]
FieldMaps ==
    {NoFields} \cup {[present |-> TRUE, map |-> m] : m \in UNION {[D -> FieldEntries] : D \in SUBSET FieldNames}}
\* intent.get("fields") is truthy
HasFields(i) == i.fields.present /\ DOMAIN i.fields.map # {}

FillSteps ==
    [value : {None, "", "typed"}, value_source : References,
     valueFrom : {NoRef, <<"fields", "subject", "value">>}, source : {NoRef},
     target : {None, "subject", "assignee"}]
FillIntents == [subject : {None, "Top subject"}, fields : FieldMaps]

\* intent.get(key) for a top-level key of the intent
TopLevel(i, key) == IF key = "subject" THEN i.subject ELSE None

Raised == "<raised>"

\* d.get(name, {}).get("value") on the fields dict: Raised when the entry is
\* not a dict.
FieldValue(i, name) ==
    IF ~i.fields.present \/ name \notin DOMAIN i.fields.map THEN None
    ELSE IF ~i.fields.map[name].isDict THEN Raised
    ELSE i.fields.map[name].value

\* vs = st.get("value_source") or st.get("valueFrom") or st.get("source")
ValueSourceOf(st) ==
    IF st.value_source # NoRef THEN st.value_source
    ELSE IF st.valueFrom # NoRef THEN st.valueFrom
    ELSE st.source

\* The fields branch: everything inside is under try/except, so a raise is None.
FromFields(st, i) ==
    LET v == IF HasFields(i) THEN FieldValue(i, ValueSourceOf(st)[2]) ELSE None
    IN IF v = Raised THEN None ELSE v

\* The target branch: intent.get(target) or fields.get(target, {}).get("value"),
\* outside any try.
FromTarget(st, i) ==
    IF TruthyStr(TopLevel(i, st.target)) THEN TopLevel(i, st.target)
    ELSE FieldValue(i, st.target)

\* Variant: the target is looked up even when a fields reference is present.
ResolvedValue_TargetFirst(st, i) ==
    IF TruthyStr(st.value) THEN st.value
    ELSE IF TruthyStr(st.target) THEN FromTarget(st, i)
    ELSE IF StartsWithFields(ValueSourceOf(st)) THEN FromFields(st, i)
    ELSE st.value

\* val as execute_steps leaves it before safe_fill (lines 992-1003).
ResolvedValue(st, i) ==
    IF TruthyStr(st.value) THEN st.value
    ELSE IF StartsWithFields(ValueSourceOf(st)) THEN FromFields(st, i)
    ELSE IF TruthyStr(st.target) THEN FromTarget(st, i)
    ELSE st.value

\* safe_fill(page, selectors, val or "", ...)
FilledValue(st, i) ==
    IF ResolvedValue(st, i) = Raised THEN Raised ELSE Or(ResolvedValue(st, i), "")

\* The step's variables while another specification runs.
ValueIdle ==
    /\ fillStep = [value |-> None, value_source |-> NoRef, valueFrom |-> NoRef,
                   source |-> NoRef, target |-> None]
    /\ fillIntent = [subject |-> None, fields |-> NoFields]
    /\ vpc = "off"
    /\ fillVal = None

\* ------------------------------------------------------- audit log (pure)
\* A string is the sequence of its lexemes; the regular expressions of
\* _redact_text work lexeme by lexeme.
EmailLexemes == {"alice@example.com"}
\* (api[_-]?key|token)
TokenLabels == {"api_key", "token"}
\* \s*[:=]\s*
TokenSeparators == {"=", ":"}
\* [\w\-\.]{8,}: at least eight word characters
TokenValues == {"sk-12345678"}

LogTexts ==
    { <<"hello">>, <<"alice@example.com">>, <<"mail", "alice@example.com">>,
      <<"api_key", "=", "sk-12345678">>, <<"sk-12345678">> }

\* _EMAIL_RE.sub("[REDACTED_EMAIL]", s)
RedactEmails(t) ==
    [i \in DOMAIN t |-> IF t[i] \in EmailLexemes THEN "[REDACTED_EMAIL]" ELSE t[i]]

\* label, separator and value start at position i
LabelledTokenAt(t, i) ==
    /\ i + 2 <= Len(t)
    /\ t[i] \in TokenLabels
    /\ t[i + 1] \in TokenSeparators
    /\ t[i + 2] \in TokenValues

\* re.sub(..., r"\1: [REDACTED]", s)
RedactTokens(t) ==
    [i \in DOMAIN t |->
        IF i >= 2 /\ LabelledTokenAt(t, i - 1) THEN ":"
        ELSE IF i >= 3 /\ LabelledTokenAt(t, i - 2) THEN "[REDACTED]"
        ELSE t[i]]

_redact_text(t) == RedactTokens(RedactEmails(t))

\* Python values that reach the log: str, float, dict, list, and values json
\* cannot serialise.
PyStr(t) == [kind |-> "str", text |-> t, keys |-> <<>>, items |-> <<>>]
PyFloat == [kind |-> "num", text |-> <<>>, keys |-> <<>>, items |-> <<>>]
PyOther == [kind |-> "other", text |-> <<>>, keys |-> <<>>, items |-> <<>>]
PyDict(ks, vs) == [kind |-> "dict", text |-> <<>>, keys |-> ks, items |-> vs]
PyArray(vs) == [kind |-> "list", text |-> <<>>, keys |-> <<>>, items |-> vs]
PyNothing == [kind |-> "none", text |-> <<>>, keys |-> <<>>, items |-> <<>>]

RECURSIVE _redact_obj(_)
_redact_obj(obj) ==
    IF obj.kind \in {"dict", "list"}
    THEN [obj EXCEPT !.items = [i \in DOMAIN obj.items |-> _redact_obj(obj.items[i])]]
    ELSE IF obj.kind = "str" THEN PyStr(_redact_text(obj.text))
    ELSE obj

\* json.dumps raises TypeError on a value it cannot serialise.
RECURSIVE Serialisable(_)
Serialisable(obj) ==
    /\ obj.kind # "other"
    /\ \A i \in DOMAIN obj.items : Serialisable(obj.items[i])

\* Keys of the steps and extras that are logged.
LogKeys == {"value", "api_key", "exc"}
KeyLists == {ks \in UNION {[1..n -> LogKeys] : n \in 1..MaxItems} :
                \A i, j \in DOMAIN ks : i # j => ks[i] # ks[j]}
LogLeaves == {PyStr(t) : t \in LogTexts} \cup {PyOther}
LogValues ==
    LogLeaves
    \cup {PyArray(vs) : vs \in UNION {[1..n -> LogLeaves] : n \in 1..MaxItems}}
    \cup {PyDict(ks, vs) : ks \in {k \in KeyLists : Len(k) = 1}, vs \in [1..1 -> LogLeaves]}
\* A step: a dict of one key whose value is a string, a list or a dict.
LogSteps == {PyDict(<<k>>, <<v>>) : k \in LogKeys, v \in LogValues}
LogExtras == {PyNothing, PyDict(<<"selector_used">>, <<PyStr(<<"hello">>)>>)}

\* payload = {"run_id", "ts", "event", "step"} and "extra" when given
LogPayload(step, extra) ==
    IF extra = PyNothing
    THEN PyDict(<<"run_id", "ts", "event", "step">>,
                <<PyStr(<<"run">>), PyFloat, PyStr(<<"step_start">>), step>>)
    ELSE PyDict(<<"run_id", "ts", "event", "step", "extra">>,
                <<PyStr(<<"run">>), PyFloat, PyStr(<<"step_start">>), step, extra>>)

\* The log's variables while another specification runs.
LogIdle ==
    /\ logStep = PyNothing
    /\ logExtra = PyNothing
    /\ lpc = "off"
    /\ logFile = <<>>
    /\ loggerOut = <<>>

\* ------------------------------------------------- adapter registry (pure)
\* Names handed to register_adapter and get_adapter.
RegistryNames == {"", " ", "dummy", " Dummy ", "Zendesk ", "acme"}
\* Adapter objects handed to register_adapter; None is no object.
AdapterObjects == {"adapterA", "adapterB", None}

\* ADAPTERS as the module builds it
InitialADAPTERS ==
    [n \in BuiltinAdapters |-> IF n = "freshdesk" THEN "freshdesk_adapter" ELSE "zendesk_adapter"]

\* Variant: the name is stored as it was given.
register_adapter_RawName(table, provider_name, adapter_obj) ==
    IF provider_name = "" \/ adapter_obj = None THEN table
    ELSE [n \in DOMAIN table \cup {provider_name} |->
             IF n = provider_name THEN adapter_obj ELSE table[n]]

\* register_adapter: the table after the call
register_adapter(table, provider_name, adapter_obj) ==
    IF provider_name = "" \/ adapter_obj = None THEN table
    ELSE [n \in DOMAIN table \cup {Lower(Strip(provider_name))} |->
             IF n = Lower(Strip(provider_name)) THEN adapter_obj ELSE table[n]]

\* get_adapter on a table of name -> object
get_adapter_in(table, provider_name) ==
    IF provider_name = "" THEN None
    ELSE IF Lower(Strip(provider_name)) \in DOMAIN table
         THEN table[Lower(Strip(provider_name))] ELSE None

NoGet == [called |-> FALSE, name |-> "", answer |-> None]

\* The registry's variables while another specification runs.
RegistryIdle ==
    /\ registry = InitialADAPTERS
    /\ registrations = <<>>
    /\ lastGet = NoGet

\* --------------------------------------------------- provider adapter (pure)
\* The intents handed to an adapter: a dict or not; "requester" missing, a dict
\* or a string; "priority" missing, a string or a number.
Payloads == [isDict : BOOLEAN, requester : {"absent", "dict", "str"},
             priority : {"absent", "str", "int"}]
HttpOutcomes == {"ok", "http_error", "transport_error"}

AdapterRaised == [raised |-> TRUE, status |-> "", code |-> FALSE, raw |-> FALSE]
AdapterError(withCode) == [raised |-> FALSE, status |-> "error", code |-> withCode, raw |-> FALSE]
AdapterOk(withRaw) == [raised |-> FALSE, status |-> "ok", code |-> FALSE, raw |-> withRaw]
NoAdapterOut == [raised |-> FALSE, status |-> "", code |-> FALSE, raw |-> FALSE]

\* Building the request body, before the try: payload.get on a value that is
\* no dict, .get on a string requester and .strip on a number priority raise.
BodyRaises(pl) ==
    \/ ~pl.isDict
    \/ pl.requester = "str"
    \/ pl.priority = "int"

\* FreshdeskAdapter.create_ticket and ZendeskAdapter.create_ticket
Adapter_create_ticket(creds, pl, h, debug) ==
    IF ~creds THEN AdapterError(FALSE)
    ELSE IF BodyRaises(pl) THEN AdapterRaised
    ELSE IF h = "ok" THEN AdapterOk(debug)
    ELSE IF h = "http_error" THEN AdapterError(TRUE)
    ELSE AdapterError(FALSE)

\* The adapter's variables while another specification runs.
AdapterIdle ==
    /\ adapterKind = "freshdesk"
    /\ credentials = FALSE
    /\ adapterPayload = [isDict |-> TRUE, requester |-> "absent", priority |-> "absent"]
    /\ http = "ok"
    /\ debugRaw = FALSE
    /\ apc = "off"
    /\ adapterOut = NoAdapterOut

\* ------------------------------------------- one Fill / Click in detail (pure)
\* What page.wait_for_selector can do.
WaitOutcomes == {"ok", "timeout", "error"}

\* One attempt of safe_fill on selector s: the mechanisms tried in order, the
\* user-completion signals (dispatch blur, focus and press Tab), the settle
\* delay wait_for_timeout(200), the _log_step events, and the outcome.
FillAttemptOf(s, k, waited, filled, evaluated) ==
    IF waited # "ok"
    THEN [selector |-> s, attempt |-> k, waited |-> waited, tried |-> <<>>,
          signals |-> FALSE, settled |-> FALSE,
          events |-> <<IF waited = "timeout" THEN "fill_selector_timeout"
                       ELSE "fill_selector_error">>,
          success |-> FALSE]
    ELSE IF filled
    THEN [selector |-> s, attempt |-> k, waited |-> waited, tried |-> <<"fill">>,
          signals |-> TRUE, settled |-> TRUE,
          events |-> <<"fill_success">>, success |-> TRUE]
    ELSE IF evaluated
    THEN [selector |-> s, attempt |-> k, waited |-> waited, tried |-> <<"fill", "eval_on_selector">>,
          signals |-> FALSE, settled |-> TRUE,
          events |-> <<"fill_success_eval">>, success |-> TRUE]
    ELSE [selector |-> s, attempt |-> k, waited |-> waited, tried |-> <<"fill", "eval_on_selector">>,
          signals |-> FALSE, settled |-> FALSE,
          events |-> <<"fill_attempt_failed">>, success |-> FALSE]

\* What page.click can do once the wait is over.
ClickOutcomes == {"ok", "timeout", "error"}

\* One attempt of safe_click on selector s.
ClickAttemptOf(s, k, waited, clicked) ==
    IF waited # "ok"
    THEN [selector |-> s, attempt |-> k, waited |-> waited, tried |-> <<>>,
          signals |-> FALSE, settled |-> FALSE,
          events |-> <<IF waited = "timeout" THEN "click_timeout" ELSE "click_error">>,
          success |-> FALSE]
    ELSE [selector |-> s, attempt |-> k, waited |-> waited, tried |-> <<"click">>,
          signals |-> FALSE, settled |-> FALSE,
          events |-> <<CASE clicked = "ok" -> "click_success"
                         [] clicked = "timeout" -> "click_timeout"
                         [] OTHER -> "click_error">>,
          success |-> clicked = "ok"]

\* The candidate lists of the call followed in detail: none, one, two different
\* ones in either order, and one named twice.
ActionCandLists ==
    { <<>>, <<"#a">>, <<"#b">>, <<"#a", "#b">>, <<"#b", "#a">>, <<"#a", "#a">> }

\* The trace while another specification runs.
TraceIdle == trace = <<>>

\* -------------------------------------------- runs sharing the stats file (pure)
Runs == {"run1", "run2"}
\* The length of json.dumps(stats): it grows with the entries; an empty or
\* missing file has length 0.
TextSize(stats) == 1 + Cardinality(DOMAIN stats)
SizeOfFile(file) == IF file.readable THEN TextSize(file.table) ELSE 0

\* SELECTOR_STATS_FILE.write_text: open(mode="w") truncates the file, or raises
\* and leaves it alone.
OpenOutcomes == {"opened", "failed"}
\* The write that follows puts the text at the start of the file, or raises.
WriteOutcomes == {"written", "torn"}

\* Variant: nothing is written.
_save_selector_stats_Unsaved(file, size, stats, how) == file

\* _save_selector_stats(stats), the write after the open: what a reader gets
\* from a file of length size once the text of stats is put at its start. A
\* longer file keeps its tail, and the whole is no JSON document. The exception
\* of a write that did not go through is swallowed.
_save_selector_stats(file, size, stats, how) ==
    IF how = "written"
    THEN IF TextSize(stats) >= size THEN FileOf(stats) ELSE NoFile
    ELSE file

NoSave == [run |-> "none", outcome |-> "none", table |-> EmptyTable]
NoWrite == [run |-> "none", table |-> EmptyTable, intact |-> FALSE]

\* The runs' variables while another specification runs.
RunsIdle ==
    /\ runTable = [r \in Runs |-> EmptyTable]
    /\ runPc = [r \in Runs |-> "off"]
    /\ sharedFile = NoFile
    /\ fileSize = 0
    /\ runLoaded = [r \in Runs |-> EmptyTable]
    /\ runRecN = [r \in Runs |-> [x \in Locators |-> 0]]
    /\ runRecS = [r \in Runs |-> [x \in Locators |-> 0]]
    /\ lastSave = NoSave
    /\ lastWritten = NoWrite

\* --------------------------------------------------- execute_steps (pure)
\* Steps of a list: a click, a step whose action is neither click nor fill, a
\* fill with a literal value (with and without a target name), a fill whose
\* value comes from the target.
PlainStep(action, value, target) ==
    [action |-> action, value |-> value, value_source |-> NoRef, valueFrom |-> NoRef,
     source |-> NoRef, target |-> target]
RunSteps ==
    { PlainStep("click", None, None), PlainStep("hover", None, None),
      PlainStep("fill", "typed", None), PlainStep("fill", "typed", "subject"),
      PlainStep("fill", None, "subject") }
RunStepLists == UNION {[1..n -> RunSteps] : n \in 0..MaxSteps}
\* Intents: the subject at the top level, or under "fields" as a plain string
\* where a dict with "value" is expected.
RunIntents ==
    { [subject |-> "Top subject", fields |-> NoFields],
      [subject |-> None,
       fields |-> [present |-> TRUE, map |-> [x \in {"subject"} |-> [isDict |-> FALSE, value |-> None]]]] }

\* What find_field_by_label meets on the page: a matching label whose "for"
\* element appears, a matching label followed by an element with an id or
\* without one, a matching label with neither, or no matching label.
PageLabels == {"for", "sibling_id", "sibling_tag", "bare", "absent"}

\* find_field_by_label: the locator, or None. placeholder: the wait for the
\* placeholder / aria-label locator goes through.
find_field_by_label(lbl, placeholder) ==
    CASE lbl = "for" -> "#for"
      [] lbl = "sibling_id" -> "#eid"
      [] lbl = "sibling_tag" -> "input"
      [] OTHER -> IF placeholder THEN "input[placeholder*='target']" ELSE None

\* Variant: the label is searched after a primary fill that went through too.
FillStepOutcome_AlwaysLabel(st, primaryOk, cand, labelOk) ==
    IF ~TruthyStr(st.target)
    THEN [primary |-> primaryOk, searched |-> FALSE, found |-> None, labelFills |-> <<>>,
          labelOk |-> FALSE, ok |-> primaryOk]
    ELSE IF cand = None
    THEN [primary |-> primaryOk, searched |-> TRUE, found |-> None, labelFills |-> <<>>,
          labelOk |-> FALSE, ok |-> primaryOk]
    ELSE [primary |-> primaryOk, searched |-> TRUE, found |-> cand, labelFills |-> <<cand>>,
          labelOk |-> labelOk, ok |-> labelOk]

\* A fill step from safe_fill on (lines 1004-1014): the primary Fill, the search
\* for a label and what it found, the Fill calls made on the locator found and
\* how they went, and ok.
FillStepOutcome(st, primaryOk, cand, labelOk) ==
    IF primaryOk \/ ~TruthyStr(st.target)
    THEN [primary |-> primaryOk, searched |-> FALSE, found |-> None, labelFills |-> <<>>,
          labelOk |-> FALSE, ok |-> primaryOk]
    ELSE IF cand = None
    THEN [primary |-> primaryOk, searched |-> TRUE, found |-> None, labelFills |-> <<>>,
          labelOk |-> FALSE, ok |-> FALSE]
    ELSE [primary |-> primaryOk, searched |-> TRUE, found |-> cand, labelFills |-> <<cand>>,
          labelOk |-> labelOk, ok |-> labelOk]

\* Variant: the events carry the position counted from 1.
StepEvents_FromOne(i, action, how, labelOk) ==
    LET ev(name) == [event |-> name, index |-> i + 1] IN
    <<ev("step_start")>>
    \o (IF labelOk THEN <<ev("step_fill_label_fallback")>> ELSE <<>>)
    \o (IF how = "raised" THEN <<>>
        ELSE IF action \in {"click", "fill"} THEN <<ev("step_end")>>
        ELSE <<ev("step_unknown_action")>>)

\* The _log_step calls execute_steps makes for the step at idx = i, in order,
\* with st_meta["index"]: step_start; step_fill_label_fallback after a label
\* Fill that went through; step_end for a click or fill, step_unknown_action
\* for any other action, nothing more when the step raised.
StepEvents(i, action, how, labelOk) ==
    LET ev(name) == [event |-> name, index |-> i] IN
    <<ev("step_start")>>
    \o (IF labelOk THEN <<ev("step_fill_label_fallback")>> ELSE <<>>)
    \o (IF how = "raised" THEN <<>>
        ELSE IF action \in {"click", "fill"} THEN <<ev("step_end")>>
        ELSE <<ev("step_unknown_action")>>)

\* An entry of the history for a step that has no fill.
StepEntry(i, action, primaryOk, how) ==
    [index |-> i, action |-> action, primary |-> primaryOk, searched |-> FALSE, found |-> None,
     labelFills |-> <<>>, labelOk |-> FALSE, result |-> how,
     events |-> StepEvents(i, action, how, FALSE)]

\* Variant: the loop ends at a step that failed.
AfterStep_StopOnFailure(i, how, n) == IF how = "ok" THEN i + 1 ELSE n + 1

\* for idx, st in enumerate(steps): the position after a step that did not
\* raise, whatever its result.
AfterStep(i, how, n) == i + 1

NoExecRet == "<unset>"

\* The call's variables while another specification runs.
StepsIdle ==
    /\ stepSeq = <<>>
    /\ stepIntent = [subject |-> None, fields |-> NoFields]
    /\ si = 0
    /\ epc = "off"
    /\ execRet = NoExecRet
    /\ stepLog = <<>>

\* ------------------------------------------------- login after the click (pure)
\* What one pass of the polling loop can meet: a mail with a code, a login
\* refused, a search that is not OK, no matching mail, an exception.
PollOutcomes == {"code", "login_failed", "search_failed", "no_match", "exception"}

\* Variant: the loop goes on polling after its deadline.
PollAgain_NoDeadline(now, limit) == TRUE

\* while time.time() < deadline
PollAgain(now, limit) == now < limit

\* while time.time() - start <= timeout_ms / 1000.0
WaitAgain(now, start) == now - start <= MaxLoginWait

\* Variant: the inbox is scraped whatever the mailbox gave.
NextSource_Both(code) == "inbox"

\* After _fetch_passcode_via_imap: the inbox only when it gave nothing.
NextSource(code) == IF code # None THEN "fill" ELSE "inbox"

\* The login's variables while another specification runs.
LoginIdle ==
    /\ imapUser = FALSE
    /\ timeout_seconds = 0
    /\ poll_interval = 0
    /\ gpc = "off"
    /\ clock = 0
    /\ deadline = 0
    /\ waitStart = 0
    /\ passcode = None
    /\ loginRet = FALSE
    /\ fetchLog = <<>>
    /\ polls = 0
    /\ lastPollAt = 0
    /\ fillTried = FALSE

\* ------------------------------------------- mock DOM step generator (pure)
\* The normalised parse: subject, description, comment, and the requester as
\* a dict with or without an email, as a string, or missing.
ParsedSubjects == {None, "Login issue"}
ParsedTexts == {None, "", "cannot log in"}
ParsedRequesters ==
    { [kind |-> "absent", email |-> None], [kind |-> "dict", email |-> "alice@example.com"],
      [kind |-> "dict", email |-> None], [kind |-> "str", email |-> "bob@example.com"] }
ParsedObjects ==
    [subject : ParsedSubjects, description : ParsedTexts, comment : {None, "see above"},
     requester : ParsedRequesters]

\* d.get(key, "") for a key that may be missing
GetOrEmpty(x) == IF x = None THEN "" ELSE x

\* _field_block and the requester block, as an entry of intent["fields"]
FieldBlock(v) == [isDict |-> TRUE, value |-> Or(v, "")]

MockStep(action, target, explain) ==
    [action |-> action, value |-> None,
     value_source |-> IF target = None THEN NoRef ELSE <<"fields", target, "value">>,
     valueFrom |-> NoRef, source |-> NoRef, target |-> target, explain |-> explain]

\* Variant: the subject is filled before the requester, and the description
\* step points at the comment.
generate_dom_steps_Reordered(p) ==
    [fields |-> [n \in {"subject", "description", "requester"} |->
                    CASE n = "subject" -> FieldBlock(GetOrEmpty(p.subject))
                      [] n = "description" -> FieldBlock(Or(Or(GetOrEmpty(p.description), GetOrEmpty(p.comment)), ""))
                      [] OTHER -> FieldBlock(GetOrEmpty(p.requester.email))],
     steps |-> << MockStep("click", None, "open new ticket panel"),
                  MockStep("fill", "subject", None),
                  MockStep("fill", "requester", None),
                  MockStep("fill", "comment", None),
                  MockStep("click", None, "submit ticket") >>]

\* generate_dom_steps: the three field blocks and the five steps.
generate_dom_steps(p) ==
    [fields |-> [n \in {"subject", "description", "requester"} |->
                    CASE n = "subject" -> FieldBlock(GetOrEmpty(p.subject))
                      [] n = "description" -> FieldBlock(Or(Or(GetOrEmpty(p.description), GetOrEmpty(p.comment)), ""))
                      [] OTHER -> FieldBlock(GetOrEmpty(p.requester.email))],
     steps |-> << MockStep("click", None, "open new ticket panel"),
                  MockStep("fill", "requester", None),
                  MockStep("fill", "subject", None),
                  MockStep("fill", "description", None),
                  MockStep("click", None, "submit ticket") >>]

NoBundle == [fields |-> <<>>, steps |-> <<>>]
\* What the LLM can answer, as a bundle.
LlmBundles == {NoBundle, [fields |-> <<>>, steps |-> <<MockStep("click", None, "from the model")>>]}

\* The generator's variables while another specification runs.
MockIdle ==
    /\ useMock = TRUE
    /\ parsedIn = [subject |-> None, description |-> None, comment |-> None,
                   requester |-> [kind |-> "absent", email |-> None]]
    /\ mpc = "off"
    /\ finalIntent = NoBundle
    /\ inferOut = NoBundle
    /\ bundles = <<>>
    /\ llmAsked = 0

\* ---------------------------------------------------------------------- Init
Init ==
    /\ providerArg \in RawProviders
    /\ fileExists \in BOOLEAN
    /\ store \in {"missing", "loaded"}
    /\ cfg \in Cfgs \cup {EmptyCfg}
    /\ (cfg # EmptyCfg => store = "loaded" /\ fileExists)
    /\ ADAPTERS \in {BuiltinAdapters, BuiltinAdapters \cup {"acme"}}
    /\ dry_run \in BOOLEAN
    /\ is_persistent \in BOOLEAN
    /\ DEBUG_RETURN_RAW \in BOOLEAN
    /\ USE_MOCK_DOM \in BOOLEAN
    /\ intent \in [steps : {PyNone} \cup {PyList(s) : s \in StepLists}, fields : {{"subject"}}]
    /\ pc = "shim"
    /\ browser = "none"
    /\ steps = PyNone
    /\ idx = 0
    /\ ok = FALSE
    /\ pendingKind = "none"
    /\ pendingValue = NoResult
    /\ agentResult = NoResult
    /\ result = NoResult
    /\ outcome = "running"
    /\ exitPath = "none"
    /\ adapterLog = <<>>
    /\ closeCalls = 0
    /\ uiSteps = 0
    /\ submitAttempts = 0
    /\ submitOk = FALSE
    /\ inferCalls = 0
    /\ llmCalls = 0
    /\ loginAttempts = 0
    /\ loginFail = "none"
    /\ boundaryRuns = 0
    /\ ssoSeen = "unchecked"
    /\ ssoMarker = "unchecked"
    /\ inferReply = [steps |-> PyNone, fields |-> "none"]
    /\ agentsBuilt = 0
    /\ StatsIdle
    /\ SubmitIdle
    /\ ValueIdle
    /\ LogIdle
    /\ RegistryIdle
    /\ AdapterIdle
    /\ TraceIdle
    /\ RunsIdle
    /\ StepsIdle
    /\ LoginIdle
    /\ MockIdle

\* ------------------------------------------------------------------- actions
\* ui_agent.create_ticket up to the agent call: validation, then get_agent()
\* (GenericUIAgent.__init__, which raises when no provider config loads).
ShimCreateTicket ==
    /\ pc = "shim"
    /\ IF providerArg = ""
       THEN /\ result' = ResError("provider is required")
            /\ outcome' = "returned"
            /\ exitPath' = "shim_validation"
            /\ pc' = "done"
            /\ UNCHANGED agentsBuilt
       ELSE IF ~_provider_config_exists(pname)
       THEN /\ result' = ResError("unknown provider")
            /\ outcome' = "returned"
            /\ exitPath' = "shim_validation"
            /\ pc' = "done"
            /\ UNCHANGED agentsBuilt
       ELSE IF store = "missing"
       THEN /\ agentsBuilt' = agentsBuilt + 1
            /\ outcome' = "raised"
            /\ exitPath' = "constructor"
            /\ pc' = "done"
            /\ UNCHANGED result
       ELSE /\ agentsBuilt' = agentsBuilt + 1
            /\ pc' = "agent_entry"
            /\ UNCHANGED <<result, outcome, exitPath>>
    /\ UNCHANGED <<inputs, intent, browser, steps, idx, ok, pendingKind, pendingValue, agentResult>>
    /\ UNCHANGED <<adapterLog, closeCalls, uiSteps, submitAttempts, submitOk, inferCalls,
                   llmCalls, loginAttempts, loginFail, boundaryRuns, ssoSeen, ssoMarker, inferReply>>
    /\ UNCHANGED aux

\* GenericUIAgent.create_ticket before its try block: _prepare_base_url, dry-run return.
AgentEntry ==
    /\ pc = "agent_entry"
    /\ IF cfg.base_url = "null"
       THEN /\ pc' = "shim_except"
            /\ exitPath' = "agent_raised"
            /\ UNCHANGED agentResult
       ELSE IF dry_run
       THEN /\ agentResult' = ResDryRun(IF Truthy(intent.steps) THEN intent.steps ELSE PyList(<<>>))
            /\ exitPath' = "dry_run"
            /\ pc' = "shim_return"
       ELSE /\ pc' = "pw_start"
            /\ UNCHANGED <<agentResult, exitPath>>
    /\ UNCHANGED <<inputs, intent, browser, steps, idx, ok, pendingKind, pendingValue, result, outcome>>
    /\ UNCHANGED <<adapterLog, closeCalls, uiSteps, submitAttempts, submitOk, inferCalls,
                   llmCalls, loginAttempts, loginFail, boundaryRuns, ssoSeen, ssoMarker, inferReply>>
    /\ UNCHANGED <<aux, agentsBuilt>>

\* with sync_playwright() as p: entering the context manager.
PlaywrightStart ==
    /\ pc = "pw_start"
    /\ \E raised \in BOOLEAN :
         pc' = IF raised THEN "boundary" ELSE "launch"
    /\ UNCHANGED <<inputs, intent, browser, steps, idx, ok, pendingKind, pendingValue,
                   agentResult, result, outcome, history>>
    /\ UNCHANGED <<aux, agentsBuilt>>

\* self._launch(p), called inside the with block and before the inner try:
\* "ok" both handles returned; "partial" the browser started and new_page raised
\* (no handle reaches create_ticket); "raise" nothing started.
Launch ==
    /\ pc = "launch"
    /\ \E out \in {"ok", "partial", "raise"} :
         IF out = "ok"
         THEN /\ browser' = "open"
              /\ pc' = "goto"
              /\ UNCHANGED pendingKind
         ELSE /\ browser' = IF out = "partial" THEN "orphan" ELSE "none"
              /\ pendingKind' = "raise"
              /\ pc' = "pw_exit"
    /\ UNCHANGED <<inputs, intent, steps, idx, ok, pendingValue, agentResult, result, outcome, history>>
    /\ UNCHANGED <<aux, agentsBuilt>>

\* page.goto(base_url): a failure is logged and the run continues.
Navigate ==
    /\ pc = "goto"
    /\ pc' = "auth"
    /\ UNCHANGED <<inputs, intent, browser, steps, idx, ok, pendingKind, pendingValue,
                   agentResult, result, outcome, history>>
    /\ UNCHANGED <<aux, agentsBuilt>>

\* if cfg and cfg.get("login"): sso_detected = self._detect_sso_on_page(page)
DetectSSO ==
    /\ pc = "auth"
    /\ IF cfg.login
       THEN \E sso_detected \in BOOLEAN :
              /\ ssoSeen' = IF sso_detected THEN "yes" ELSE "no"
              /\ pc' = IF sso_detected /\ ~is_persistent THEN "sso_wait" ELSE "login"
       ELSE /\ pc' = "steps"
            /\ UNCHANGED ssoSeen
    /\ UNCHANGED <<inputs, intent, browser, steps, idx, ok, pendingKind, pendingValue,
                   agentResult, result, outcome>>
    /\ UNCHANGED <<exitPath, adapterLog, closeCalls, uiSteps, submitAttempts, submitOk, inferCalls,
                   llmCalls, loginAttempts, loginFail, boundaryRuns, ssoMarker, inferReply>>
    /\ UNCHANGED <<aux, agentsBuilt>>

\* The manual-intervention wait, the post-login marker check over
\* open_new_selectors[:3], and the adapter fallback when no marker is present.
SSOManualWait ==
    /\ pc = "sso_wait"
    /\ \E logged_in \in BOOLEAN, reply \in RepliesOf(_resolve_adapter(provider, cfg)) :
         /\ ssoMarker' = IF logged_in THEN "present" ELSE "absent"
         /\ IF logged_in
            THEN /\ pc' = "steps"
                 /\ UNCHANGED <<pendingKind, pendingValue, exitPath, adapterLog>>
            ELSE
              /\ pendingKind' = "return"
              /\ pendingValue' = AdapterFallback(reply, "SSO required and no adapter for provider")
              /\ LogAdapterCall(reply)
              /\ exitPath' = "sso_timeout"
              /\ pc' = FinallyTarget
    /\ UNCHANGED <<inputs, intent, browser, steps, idx, ok, agentResult, result, outcome>>
    /\ UNCHANGED <<closeCalls, uiSteps, submitAttempts, submitOk, inferCalls, llmCalls,
                   loginAttempts, loginFail, boundaryRuns, ssoSeen, inferReply>>
    /\ UNCHANGED <<aux, agentsBuilt>>

\* _attempt_login: why it returns False, or "none" when it returns True.
\* creds: both credentials set; clicked: some login button click went through;
\* prompt: a passcode prompt was detected; imap / inbox: that path yielded a code;
\* confirmed: _wait_for_login_completion saw a post-login signal within its bound.
_attempt_login(creds, clicked, prompt, imap, inbox, confirmed) ==
    IF ~cfg.login THEN "no_login_block"
    ELSE IF ~creds THEN "no_credentials"
    ELSE IF ~clicked THEN "no_login_button"
    ELSE IF prompt /\ ~(imap \/ inbox) THEN "no_passcode"
    ELSE IF ~confirmed THEN "not_confirmed"
    ELSE "none"

\* did_login = self._attempt_login(...); on failure the adapter fallback.
AttemptLogin ==
    /\ pc = "login"
    /\ \E creds, clicked, prompt, imap, inbox, confirmed \in BOOLEAN, reply \in RepliesOf(_resolve_adapter(provider, cfg)) :
         LET why == _attempt_login(creds, clicked, prompt, imap, inbox, confirmed) IN
         /\ loginFail' = why
         /\ IF why = "none"
            THEN /\ pc' = "steps"
                 /\ UNCHANGED <<pendingKind, pendingValue, exitPath, adapterLog>>
            ELSE /\ pendingKind' = "return"
                 /\ pendingValue' = AdapterFallback(reply, "login failed and no adapter for provider")
                 /\ LogAdapterCall(reply)
                 /\ exitPath' = "login_failed"
                 /\ pc' = FinallyTarget
    /\ loginAttempts' = loginAttempts + 1
    /\ UNCHANGED <<inputs, intent, browser, steps, idx, ok, agentResult, result, outcome>>
    /\ UNCHANGED <<closeCalls, uiSteps, submitAttempts, submitOk, inferCalls, llmCalls, boundaryRuns, ssoSeen, ssoMarker, inferReply>>
    /\ UNCHANGED <<aux, agentsBuilt>>

\* What infer_steps_with_llm builds from the LLM reply: "steps" only when truthy,
\* "fields" only when truthy ("map" a mapping, "bad" a truthy value that is no
\* mapping); with neither, or when the call or the parse failed, it returns None.
NoInference == [steps |-> PyNone, fields |-> "none"]
InferredFields == {"description"}
InferReplies ==
    [steps : {PyNone, PyNum} \cup {PyList(s) : s \in NonEmptyStepLists},
     fields : {"none", "map", "bad"}]

\* Variant: the model is asked even when USE_MOCK_DOM is set.
infer_steps_with_llm_IgnoresMock(reply) == reply

infer_steps_with_llm(reply) == IF USE_MOCK_DOM THEN NoInference ELSE reply

\* Variant: the inferred steps are written into the intent as well.
AttachInferred_StepsToo(i, inferred) ==
    [steps |-> IF inferred.steps = PyNone THEN i.steps ELSE inferred.steps,
     fields |-> IF inferred.fields = "map" THEN i.fields \cup InferredFields ELSE i.fields]

\* if inferred.get("fields"): intent.setdefault("fields", {}).update(...): the
\* intent after the inferred fields were attached; its steps are not touched.
AttachInferred(i, inferred) ==
    IF inferred.fields = "map" THEN [i EXCEPT !.fields = @ \cup InferredFields] ELSE i

\* Variant: inference is asked whatever the intent carries.
NeedsInference_Always(s) == TRUE

\* if not steps: (the intent's own steps win; inference is asked only without them)
NeedsInference(s) == ~Truthy(s)

\* steps = intent.get("steps"); if not steps: inferred = self.infer_steps_with_llm(...)
ObtainSteps ==
    /\ pc = "steps"
    /\ IF ~NeedsInference(intent.steps)
       THEN /\ steps' = intent.steps
            /\ pc' = "check_steps"
            /\ UNCHANGED <<intent, inferCalls, llmCalls, pendingKind, exitPath, inferReply>>
       ELSE \E reply \in InferReplies :
              LET inferred == infer_steps_with_llm(reply) IN
              /\ inferReply' = infer_steps_with_llm(reply)
              /\ inferCalls' = inferCalls + 1
              /\ llmCalls' = IF USE_MOCK_DOM THEN llmCalls ELSE llmCalls + 1
              /\ IF inferred = NoInference
                 THEN /\ steps' = intent.steps
                      /\ pc' = "check_steps"
                      /\ UNCHANGED <<intent, pendingKind, exitPath>>
                 ELSE /\ steps' = IF inferred.steps = PyNone THEN PyList(<<>>) ELSE inferred.steps
                      /\ IF inferred.fields = "bad"
                         \* intent.setdefault("fields", {}).update(<no mapping>) raises
                         THEN /\ pendingKind' = "raise"
                              /\ exitPath' = "fault"
                              /\ pc' = FinallyTarget
                              /\ UNCHANGED intent
                         ELSE /\ intent' = AttachInferred(intent, inferred)
                              /\ pc' = "check_steps"
                              /\ UNCHANGED <<pendingKind, exitPath>>
    /\ UNCHANGED <<inputs, browser, idx, ok, pendingValue, agentResult, result, outcome>>
    /\ UNCHANGED <<adapterLog, closeCalls, uiSteps, submitAttempts, submitOk,
                   loginAttempts, loginFail, boundaryRuns, ssoSeen, ssoMarker>>
    /\ UNCHANGED <<aux, agentsBuilt>>

\* if not steps: the adapter fallback; otherwise on to execute_steps.
CheckSteps ==
    /\ pc = "check_steps"
    /\ IF Truthy(steps)
       THEN /\ pc' = "exec"
            /\ UNCHANGED <<pendingKind, pendingValue, exitPath, adapterLog>>
       ELSE \E reply \in RepliesOf(_resolve_adapter(provider, cfg)) :
              /\ pendingKind' = "return"
              /\ pendingValue' = AdapterFallback(reply, "no steps and no adapter for provider")
              /\ LogAdapterCall(reply)
              /\ exitPath' = "no_steps"
              /\ pc' = FinallyTarget
    /\ UNCHANGED <<inputs, intent, browser, steps, idx, ok, agentResult, result, outcome>>
    /\ UNCHANGED <<closeCalls, uiSteps, submitAttempts, submitOk, inferCalls, llmCalls,
                   loginAttempts, loginFail, boundaryRuns, ssoSeen, ssoMarker, inferReply>>
    /\ UNCHANGED <<aux, agentsBuilt>>

\* execute_steps, one loop iteration per firing.  A step that fails is logged and
\* the loop goes on; an exception inside the loop body (or enumerate() of a value
\* that is no list) is caught by the method, which then returns False.
ExecuteStep ==
    /\ pc = "exec"
    /\ IF steps.kind # "list"
       THEN /\ ok' = FALSE
            /\ pc' = "submit"
            /\ UNCHANGED <<idx, uiSteps>>
       ELSE \E raised \in BOOLEAN :
              /\ uiSteps' = uiSteps + 1
              /\ IF raised
                 THEN /\ ok' = FALSE
                      /\ pc' = "submit"
                      /\ UNCHANGED idx
                 ELSE /\ idx' = idx + 1
                      /\ ok' = (idx + 1 = Len(steps.items))
                      /\ pc' = IF idx + 1 = Len(steps.items) THEN "submit" ELSE "exec"
    /\ UNCHANGED <<inputs, intent, browser, steps, pendingKind, pendingValue, agentResult, result, outcome>>
    /\ UNCHANGED <<exitPath, adapterLog, closeCalls, submitAttempts, submitOk, inferCalls,
                   llmCalls, loginAttempts, loginFail, boundaryRuns, ssoSeen, ssoMarker, inferReply>>
    /\ UNCHANGED <<aux, agentsBuilt>>

\* _attempt_submit's answer from what its three layers did: a selector click in
\* some frame, the keyboard shortcut, form.submit(); None when all three failed.
_attempt_submit(click, keyboard, form) ==
    IF click THEN "selector"
    ELSE IF keyboard THEN "keyboard"
    ELSE IF form THEN "form.submit()"
    ELSE None

\* submit_ok, submit_used = self._attempt_submit(page, cfg); if submit_ok: ok = True
AttemptSubmit ==
    /\ pc = "submit"
    /\ \E click, keyboard, form \in BOOLEAN :
         LET submit_used == _attempt_submit(click, keyboard, form) IN
         /\ submitOk' = (submit_used # None)
         /\ ok' = IF submit_used # None THEN TRUE ELSE ok
    /\ submitAttempts' = submitAttempts + 1
    /\ pc' = "finish"
    /\ UNCHANGED <<inputs, intent, browser, steps, idx, pendingKind, pendingValue, agentResult, result, outcome>>
    /\ UNCHANGED <<exitPath, adapterLog, closeCalls, uiSteps, inferCalls, llmCalls,
                   loginAttempts, loginFail, boundaryRuns, ssoSeen, ssoMarker, inferReply>>
    /\ UNCHANGED <<aux, agentsBuilt>>

\* Diagnostics and the stats save (failures swallowed), then
\* return _result("ok" if ok else "failed", {"executed_steps": len(steps)});
\* len() of a value that is no list raises.
Finish ==
    /\ pc = "finish"
    /\ IF steps.kind = "list"
       THEN /\ pendingKind' = "return"
            /\ pendingValue' = ResFinal(ok, Len(steps.items))
            /\ exitPath' = "completed"
       ELSE /\ pendingKind' = "raise"
            /\ exitPath' = "fault"
            /\ UNCHANGED pendingValue
    /\ pc' = FinallyTarget
    /\ UNCHANGED <<inputs, intent, browser, steps, idx, ok, agentResult, result, outcome>>
    /\ UNCHANGED <<adapterLog, closeCalls, uiSteps, submitAttempts, submitOk, inferCalls,
                   llmCalls, loginAttempts, loginFail, boundaryRuns, ssoSeen, ssoMarker, inferReply>>
    /\ UNCHANGED <<aux, agentsBuilt>>

\* finally: self._close(ctx_or_browser)
Close ==
    /\ pc = "close"
    /\ browser' = "closed"
    /\ closeCalls' = closeCalls + 1
    /\ pc' = "pw_exit"
    /\ UNCHANGED <<inputs, intent, steps, idx, ok, pendingKind, pendingValue, agentResult, result, outcome>>
    /\ UNCHANGED <<exitPath, adapterLog, uiSteps, submitAttempts, submitOk, inferCalls,
                   llmCalls, loginAttempts, loginFail, boundaryRuns, ssoSeen, ssoMarker, inferReply>>
    /\ UNCHANGED <<aux, agentsBuilt>>

\* Leaving the with block: the context manager's exit may itself raise, which
\* replaces a pending return; a pending exception goes on to the except clause.
PlaywrightExit ==
    /\ pc = "pw_exit"
    /\ \E raised \in BOOLEAN :
         IF raised \/ pendingKind = "raise"
         THEN /\ pc' = "boundary"
              /\ UNCHANGED agentResult
         ELSE /\ agentResult' = pendingValue
              /\ pc' = "shim_return"
    /\ UNCHANGED <<inputs, intent, browser, steps, idx, ok, pendingKind, pendingValue, result, outcome, history>>
    /\ UNCHANGED <<aux, agentsBuilt>>

\* Variant: the except clause reports the generic error without a fallback.
BoundaryResult_NoFallback(reply) == ResError("unhandled exception during UI run")

\* The except clause's result: the adapter's answer keyed by provider, or the
\* generic error when no adapter resolves or the adapter raises.
BoundaryResult(reply) ==
    IF _resolve_adapter(provider, cfg) = None \/ reply.raised
    THEN ResError("unhandled exception during UI run")
    ELSE ResKeyed(provider, StripRaw(reply.res))

\* except Exception: one adapter attempt, else the generic error result.
Boundary ==
    /\ pc = "boundary"
    /\ \E reply \in RepliesOf(_resolve_adapter(provider, cfg)) :
         /\ agentResult' = BoundaryResult(reply)
         /\ LogAdapterCall(reply)
    /\ boundaryRuns' = boundaryRuns + 1
    /\ pc' = "shim_return"
    /\ UNCHANGED <<inputs, intent, browser, steps, idx, ok, pendingKind, pendingValue, result, outcome>>
    /\ UNCHANGED <<exitPath, closeCalls, uiSteps, submitAttempts, submitOk, inferCalls,
                   llmCalls, loginAttempts, loginFail, ssoSeen, ssoMarker, inferReply>>
    /\ UNCHANGED <<aux, agentsBuilt>>

\* ui_agent.create_ticket: return agent.create_ticket(...)
ShimReturn ==
    /\ pc = "shim_return"
    /\ result' = agentResult
    /\ outcome' = "returned"
    /\ pc' = "done"
    /\ UNCHANGED <<inputs, intent, browser, steps, idx, ok, pendingKind, pendingValue, agentResult, history>>
    /\ UNCHANGED <<aux, agentsBuilt>>

\* ui_agent.create_ticket: except Exception as e, the shim's own adapter fallback.
ShimExcept ==
    /\ pc = "shim_except"
    /\ \E reply \in RepliesOf(get_adapter(pname)) :
         /\ result' = IF get_adapter(pname) = None THEN ResError("str(e)")
                      ELSE IF reply.raised
                           THEN ResError("exception creating ticket and adapter fallback failed")
                      ELSE ResKeyed(pname, reply.res)
         /\ adapterLog' = IF get_adapter(pname) = None THEN adapterLog ELSE Append(adapterLog, reply)
    /\ outcome' = "returned"
    /\ pc' = "done"
    /\ UNCHANGED <<inputs, intent, browser, steps, idx, ok, pendingKind, pendingValue, agentResult>>
    /\ UNCHANGED <<exitPath, closeCalls, uiSteps, submitAttempts, submitOk, inferCalls,
                   llmCalls, loginAttempts, loginFail, boundaryRuns, ssoSeen, ssoMarker, inferReply>>
    /\ UNCHANGED <<aux, agentsBuilt>>

Next ==
    \/ ShimCreateTicket
    \/ AgentEntry
    \/ PlaywrightStart
    \/ Launch
    \/ Navigate
    \/ DetectSSO
    \/ SSOManualWait
    \/ AttemptLogin
    \/ ObtainSteps
    \/ CheckSteps
    \/ ExecuteStep
    \/ AttemptSubmit
    \/ Finish
    \/ Close
    \/ PlaywrightExit
    \/ Boundary
    \/ ShimReturn
    \/ ShimExcept

Spec == Init /\ [][Next]_vars
\* The run is one sequential control flow: it goes on as long as it has a step
\* to take.
FairSpec == Spec /\ WF_vars(Next)


\* ------------------------------------------- specification of the scorer
\* The orchestrator's variables while another specification runs.
RunIdle ==
    /\ providerArg = "" /\ fileExists = FALSE /\ store = "missing" /\ cfg = EmptyCfg
    /\ ADAPTERS = BuiltinAdapters /\ dry_run = FALSE /\ is_persistent = FALSE
    /\ DEBUG_RETURN_RAW = FALSE /\ USE_MOCK_DOM = TRUE
    /\ intent = [steps |-> PyNone, fields |-> {"subject"}]
    /\ pc = "off" /\ browser = "none" /\ steps = PyNone /\ idx = 0 /\ ok = FALSE
    /\ pendingKind = "none" /\ pendingValue = NoResult /\ agentResult = NoResult
    /\ result = NoResult /\ outcome = "running"
    /\ exitPath = "none" /\ adapterLog = <<>> /\ closeCalls = 0 /\ uiSteps = 0
    /\ submitAttempts = 0 /\ submitOk = FALSE /\ inferCalls = 0 /\ llmCalls = 0
    /\ loginAttempts = 0 /\ loginFail = "none" /\ boundaryRuns = 0
    /\ ssoSeen = "unchecked" /\ ssoMarker = "unchecked"
    /\ inferReply = [steps |-> PyNone, fields |-> "none"]
    /\ agentsBuilt = 0

\* Everything but the scorer's variables.
outsideStats == <<runVars, submitVars, valueVars, logVars, registryVars, adapterVars, traceVars, runsVars, stepsVars, loginVars, mockVars>>

\* Records made since the load, over all selectors.
RECURSIVE SumOver(_, _)
SumOver(f, S) == IF S = {} THEN 0 ELSE LET x == CHOOSE y \in S : TRUE IN f[x] + SumOver(f, S \ {x})
Recorded == SumOver(recN, Locators)

InitStats ==
    /\ RunIdle
    /\ SubmitIdle
    /\ ValueIdle
    /\ LogIdle
    /\ RegistryIdle
    /\ AdapterIdle
    /\ TraceIdle
    /\ RunsIdle
    /\ StepsIdle
    /\ LoginIdle
    /\ MockIdle
    /\ statsFile \in {FileOf(t) : t \in WrittenTables} \cup {NoFile}
    /\ selector_stats = EmptyTable
    /\ spc = "new"
    /\ call = NoCall
    /\ ret = NoRet
    /\ loadedTable = EmptyTable
    /\ recN = [x \in Locators |-> 0]
    /\ recS = [x \in Locators |-> 0]
    /\ callBefore = EmptyTable
    /\ callLog = <<>>
    /\ orderIn = <<>>
    /\ orderOut = <<>>

\* GenericUIAgent.__init__: self.selector_stats = _load_selector_stats()
LoadSelectorStats ==
    /\ spc = "new"
    /\ selector_stats' = _load_selector_stats(statsFile)
    /\ loadedTable' = _load_selector_stats(statsFile)
    /\ spc' = "idle"
    /\ UNCHANGED <<statsFile, call, ret, recN, recS, callBefore, callLog, orderIn, orderOut>>
    /\ UNCHANGED outsideStats

\* _update_selector_stats(selector, success) with its _save_selector_stats:
\* the table is updated, then written out whole; a failed write is swallowed.
Record(s, success, saved) ==
    /\ selector_stats' = _update_selector_stats(selector_stats, s, success)
    /\ statsFile' = IF saved
                    THEN FileOf(_update_selector_stats(selector_stats, s, success))
                    ELSE statsFile
    /\ recN' = [recN EXCEPT ![s] = @ + 1]
    /\ recS' = [recS EXCEPT ![s] = @ + (IF success THEN 1 ELSE 0)]

\* record(locator, success) called on its own.
UpdateSelectorStats ==
    /\ spc = "idle"
    /\ Recorded < MaxRecords
    /\ \E s \in Locators, success \in BOOLEAN, saved \in BOOLEAN : Record(s, success, saved)
    /\ call' = NoCall /\ ret' = NoRet /\ callBefore' = EmptyTable /\ callLog' = <<>>
    /\ orderIn' = <<>> /\ orderOut' = <<>>
    /\ UNCHANGED <<spc, loadedTable>>
    /\ UNCHANGED outsideStats

\* order(candidates) called on its own.
ScoreAndOrder ==
    /\ spc = "idle"
    /\ \E selectors \in CandLists :
         /\ orderIn' = selectors
         /\ orderOut' = _score_and_order_selectors(selector_stats, selectors)
    /\ call' = NoCall /\ ret' = NoRet /\ callBefore' = EmptyTable /\ callLog' = <<>>
    /\ UNCHANGED <<selector_stats, statsFile, spc, loadedTable, recN, recS>>
    /\ UNCHANGED outsideStats

\* safe_fill / safe_click up to the loops: the candidates are ordered once.
BeginCall(kind) ==
    /\ \E selectors \in CandLists, retries \in RetryCounts :
         /\ Recorded + Len(selectors) * retries <= MaxRecords
         /\ call' = [kind |-> kind, selectors |-> selectors,
                     ordered |-> _score_and_order_selectors(selector_stats, selectors),
                     retries |-> retries, i |-> 1, attempt |-> 1]
    /\ callBefore' = selector_stats
    /\ callLog' = <<>>
    /\ ret' = NoRet
    /\ spc' = "trying"
    /\ orderIn' = <<>> /\ orderOut' = <<>>
    /\ UNCHANGED <<selector_stats, statsFile, loadedTable, recN, recS>>

SafeFillBegin ==
    /\ spc = "idle"
    /\ BeginCall("fill")
    /\ UNCHANGED outsideStats

SafeClickBegin ==
    /\ spc = "idle"
    /\ BeginCall("click")
    /\ UNCHANGED outsideStats

\* Variant: a failed attempt always moves on to the next candidate.
Advance_OneTry(c) == [c EXCEPT !.i = @ + 1, !.attempt = 1]

\* for s in selectors: for attempt in range(per_selector_retries): after a
\* failed attempt, the next attempt on s, or the next candidate.
Advance(c) ==
    IF c.attempt < c.retries THEN [c EXCEPT !.attempt = @ + 1]
    ELSE [c EXCEPT !.i = @ + 1, !.attempt = 1]

\* Variant: a success ends the call only on the candidate's last retry.
ReturnsOn_LastRetry(e, c) == e.success /\ c.attempt = c.retries

\* return True, s: a successful attempt ends the call, whatever retries and
\* candidates are left.
ReturnsOn(e, c) == e.success

\* The loops have something left to try.
HasAttempt(c) == c.retries > 0 /\ c.i <= Len(c.ordered)

\* One attempt of a call: it worked (the selector is recorded as a success and
\* returned) or it did not (a failure is recorded and the loops go on).
Attempt(worked) ==
    /\ spc = "trying"
    /\ HasAttempt(call)
    /\ LET s == call.ordered[call.i] IN
         /\ \E saved \in BOOLEAN : Record(s, worked, saved)
         /\ callLog' = Append(callLog, [selector |-> s, success |-> worked])
         /\ IF worked
            THEN /\ ret' = [ok |-> TRUE, used |-> s]
                 /\ spc' = "idle"
                 /\ UNCHANGED call
            ELSE /\ call' = Advance(call)
                 /\ UNCHANGED <<ret, spc>>
    /\ UNCHANGED <<loadedTable, callBefore, orderIn, orderOut>>
    /\ UNCHANGED outsideStats

\* safe_fill, one attempt: wait_for_selector, page.fill, and on its failure the
\* eval_on_selector mechanism; any of the two working is a success.
SafeFillAttempt ==
    /\ call.kind = "fill"
    /\ \E waited, filled, evaluated \in BOOLEAN : Attempt(waited /\ (filled \/ evaluated))

\* safe_click, one attempt: wait_for_selector and page.click.
SafeClickAttempt ==
    /\ call.kind = "click"
    /\ \E waited, clicked \in BOOLEAN : Attempt(waited /\ clicked)

\* return False, None: the loops ran out.
ReturnFailure ==
    /\ spc = "trying"
    /\ ~HasAttempt(call)
    /\ ret' = [ok |-> FALSE, used |-> None]
    /\ spc' = "idle"
    /\ UNCHANGED <<selector_stats, statsFile, call, loadedTable, recN, recS,
                   callBefore, callLog, orderIn, orderOut>>
    /\ UNCHANGED outsideStats

NextStats ==
    \/ LoadSelectorStats
    \/ UpdateSelectorStats
    \/ ScoreAndOrder
    \/ SafeFillBegin
    \/ SafeClickBegin
    \/ SafeFillAttempt
    \/ SafeClickAttempt
    \/ ReturnFailure

SpecStats == InitStats /\ [][NextStats]_vars

\* ------------------------------------ specification of the submit resolver
outsideSubmit == <<runVars, statsVars, valueVars, logVars, registryVars, adapterVars, traceVars, runsVars, stepsVars, loginVars, mockVars>>

InitSubmit ==
    /\ RunIdle
    /\ StatsIdle
    /\ ValueIdle
    /\ LogIdle
    /\ RegistryIdle
    /\ AdapterIdle
    /\ TraceIdle
    /\ RunsIdle
    /\ StepsIdle
    /\ LoginIdle
    /\ MockIdle
    /\ submit_selectors \in SubmitSelectorLists
    /\ pageFrames \in {FramesRaise} \cup (0..MaxFrames)
    /\ subpc = "begin"
    /\ dedup = <<>>
    /\ frames = <<>>
    /\ fi = 0 /\ ci = 0
    /\ subret = NoSubmitRet
    /\ visited = <<>>
    /\ keyboardTried = FALSE
    /\ formTried = FALSE
    /\ succeeded = <<>>
    /\ failedKinds = {}
    /\ lastTry = None

\* _attempt_submit up to the loops: candidates, dedup, frames.
SubmitBegin ==
    /\ subpc = "begin"
    /\ dedup' = Dedup(SubmitCandidates(submit_selectors), {})
    /\ frames' = FramesOf(pageFrames)
    /\ fi' = 1 /\ ci' = 1
    /\ subpc' = "frames"
    /\ UNCHANGED <<submit_selectors, pageFrames, subret, visited, keyboardTried, formTried,
                   succeeded, failedKinds, lastTry>>
    /\ UNCHANGED outsideSubmit

\* One (frame, s) pair of the loops: the selector is not in the frame
\* ("skip"), a click or the scripted click goes through ("click", "js"), or
\* both raise ("fail").
SubmitTryPair ==
    /\ subpc = "frames"
    /\ fi <= Len(frames)
    /\ visited' = Append(visited, <<frames[fi], dedup[ci]>>)
    /\ \E out \in {"skip", "click", "js", "fail"} :
         /\ IF out \in {"click", "js"}
            THEN /\ subret' = [ok |-> TRUE, used |-> dedup[ci]]
                 /\ subpc' = "done"
                 /\ UNCHANGED <<fi, ci>>
            ELSE /\ fi' = NextPair(fi, ci, Len(frames), Len(dedup))[1]
                 /\ ci' = NextPair(fi, ci, Len(frames), Len(dedup))[2]
                 /\ UNCHANGED <<subret, subpc>>
         /\ succeeded' = succeeded \o ClickPair(out).succeeded
         /\ failedKinds' = failedKinds \cup ClickPair(out).failed
         /\ lastTry' = IF out = "skip" THEN lastTry ELSE ClickPair(out).last
    /\ UNCHANGED <<submit_selectors, pageFrames, dedup, frames, keyboardTried, formTried>>
    /\ UNCHANGED outsideSubmit

\* The loops ran out: on to the keyboard shortcut.
SubmitLoopsDone ==
    /\ subpc = "frames"
    /\ fi > Len(frames)
    /\ subpc' = "keyboard"
    /\ UNCHANGED <<submit_selectors, pageFrames, dedup, frames, fi, ci, subret, visited,
                   keyboardTried, formTried, succeeded, failedKinds, lastTry>>
    /\ UNCHANGED outsideSubmit

\* Control+Enter, or Enter when that raises; (True, "keyboard") unless both raise.
SubmitKeyboard ==
    /\ subpc = "keyboard"
    /\ keyboardTried' = TRUE
    /\ \E ctrlEnter, enter \in BOOLEAN :
         LET k == KeyboardSubmit(ctrlEnter, enter) IN
         /\ IF k.ok
            THEN /\ subret' = [ok |-> TRUE, used |-> "keyboard"]
                 /\ subpc' = "done"
            ELSE /\ subpc' = "form"
                 /\ UNCHANGED subret
         /\ succeeded' = succeeded \o k.succeeded
         /\ failedKinds' = failedKinds \cup k.failed
         /\ lastTry' = k.last
    /\ UNCHANGED <<submit_selectors, pageFrames, dedup, frames, fi, ci, visited, formTried>>
    /\ UNCHANGED outsideSubmit

\* page.evaluate(form.submit()): (True, "form.submit()") when it answers true,
\* else (False, None).
SubmitForm ==
    /\ subpc = "form"
    /\ formTried' = TRUE
    /\ \E res \in {"true", "false", "raise"} :
         /\ subret' = IF res = "true" THEN [ok |-> TRUE, used |-> "form.submit()"]
                      ELSE [ok |-> FALSE, used |-> None]
         /\ succeeded' = IF res = "true" THEN Append(succeeded, "form.submit()") ELSE succeeded
         /\ failedKinds' = IF res = "true" THEN failedKinds ELSE failedKinds \cup {"form.submit()"}
    /\ lastTry' = "form.submit()"
    /\ subpc' = "done"
    /\ UNCHANGED <<submit_selectors, pageFrames, dedup, frames, fi, ci, visited, keyboardTried>>
    /\ UNCHANGED outsideSubmit

NextSubmit ==
    \/ SubmitBegin
    \/ SubmitTryPair
    \/ SubmitLoopsDone
    \/ SubmitKeyboard
    \/ SubmitForm

SpecSubmit == InitSubmit /\ [][NextSubmit]_vars
FairSpecSubmit == SpecSubmit /\ WF_vars(NextSubmit)

\* -------------------------------------- specification of the fill value
outsideValue == <<runVars, statsVars, submitVars, logVars, registryVars, adapterVars, traceVars, runsVars, stepsVars, loginVars, mockVars>>

InitValue ==
    /\ RunIdle
    /\ StatsIdle
    /\ SubmitIdle
    /\ LogIdle
    /\ RegistryIdle
    /\ AdapterIdle
    /\ TraceIdle
    /\ RunsIdle
    /\ StepsIdle
    /\ LoginIdle
    /\ MockIdle
    /\ fillStep \in FillSteps
    /\ fillIntent \in FillIntents
    /\ vpc = "resolve"
    /\ fillVal = None

\* execute_steps, action "fill": the value is resolved and handed to safe_fill;
\* a raise leaves the loop for the except clause of execute_steps.
ResolveFillValue ==
    /\ vpc = "resolve"
    /\ fillVal' = FilledValue(fillStep, fillIntent)
    /\ vpc' = "done"
    /\ UNCHANGED <<fillStep, fillIntent>>
    /\ UNCHANGED outsideValue

NextValue ==
    \/ ResolveFillValue

SpecValue == InitValue /\ [][NextValue]_vars

\* ------------------------------------------- specification of the audit log
outsideLog == <<runVars, statsVars, submitVars, valueVars, registryVars, adapterVars, traceVars, runsVars, stepsVars, loginVars, mockVars>>

InitLog ==
    /\ RunIdle
    /\ StatsIdle
    /\ SubmitIdle
    /\ ValueIdle
    /\ RegistryIdle
    /\ AdapterIdle
    /\ TraceIdle
    /\ RunsIdle
    /\ StepsIdle
    /\ LoginIdle
    /\ MockIdle
    /\ logStep \in LogSteps
    /\ logExtra \in LogExtras
    /\ lpc = "log"
    /\ logFile = <<>>
    /\ loggerOut = <<>>

\* _append_logline: the line is appended, or the write fails and is swallowed.
_append_logline(log_obj, written) ==
    logFile' = IF written THEN Append(logFile, log_obj) ELSE logFile

\* _log_step: the payload is redacted, logged and appended; when json.dumps
\* raises, the except clause hands the payload as it is to the logger.
LogStep ==
    /\ lpc = "log"
    /\ LET payload == LogPayload(logStep, logExtra)
           safe == _redact_obj(payload)
       IN IF Serialisable(safe)
          THEN /\ loggerOut' = Append(loggerOut, safe)
               /\ \E written \in BOOLEAN : _append_logline(safe, written)
          ELSE /\ loggerOut' = Append(loggerOut, payload)
               /\ UNCHANGED logFile
    /\ lpc' = "done"
    /\ UNCHANGED <<logStep, logExtra>>
    /\ UNCHANGED outsideLog

NextLog ==
    \/ LogStep

SpecLog == InitLog /\ [][NextLog]_vars

\* -------------------------------------- specification of the adapter registry
outsideRegistry == <<runVars, statsVars, submitVars, valueVars, logVars, adapterVars, traceVars, runsVars, stepsVars, loginVars, mockVars>>

InitRegistry ==
    /\ RunIdle
    /\ StatsIdle
    /\ SubmitIdle
    /\ ValueIdle
    /\ LogIdle
    /\ AdapterIdle
    /\ TraceIdle
    /\ RunsIdle
    /\ StepsIdle
    /\ LoginIdle
    /\ MockIdle
    /\ registry = InitialADAPTERS
    /\ registrations = <<>>
    /\ lastGet = NoGet

RegisterAdapter ==
    /\ Len(registrations) < MaxRegistrations
    /\ \E name \in RegistryNames, obj \in AdapterObjects :
          /\ registry' = register_adapter(registry, name, obj)
          /\ registrations' = Append(registrations, <<name, obj>>)
    /\ lastGet' = NoGet
    /\ UNCHANGED outsideRegistry

GetAdapter ==
    /\ \E name \in RegistryNames \cup BuiltinAdapters :
          lastGet' = [called |-> TRUE, name |-> name,
                      answer |-> get_adapter_in(registry, name)]
    /\ UNCHANGED <<registry, registrations>>
    /\ UNCHANGED outsideRegistry

NextRegistry ==
    \/ RegisterAdapter
    \/ GetAdapter

SpecRegistry == InitRegistry /\ [][NextRegistry]_vars

\* -------------------------------------- specification of the provider adapter
outsideAdapter == <<runVars, statsVars, submitVars, valueVars, logVars, registryVars, traceVars, runsVars, stepsVars, loginVars, mockVars>>

InitAdapter ==
    /\ RunIdle
    /\ StatsIdle
    /\ SubmitIdle
    /\ ValueIdle
    /\ LogIdle
    /\ RegistryIdle
    /\ TraceIdle
    /\ RunsIdle
    /\ StepsIdle
    /\ LoginIdle
    /\ MockIdle
    /\ adapterKind \in BuiltinAdapters
    /\ credentials \in BOOLEAN
    /\ adapterPayload \in Payloads
    /\ http \in HttpOutcomes
    /\ debugRaw \in BOOLEAN
    /\ apc = "call"
    /\ adapterOut = NoAdapterOut

AdapterCreateTicket ==
    /\ apc = "call"
    /\ adapterOut' = Adapter_create_ticket(credentials, adapterPayload, http, debugRaw)
    /\ apc' = "done"
    /\ UNCHANGED <<adapterKind, credentials, adapterPayload, http, debugRaw>>
    /\ UNCHANGED outsideAdapter

NextAdapter ==
    \/ AdapterCreateTicket

SpecAdapter == InitAdapter /\ [][NextAdapter]_vars

\* ------------------------------- specification of one Fill / Click in detail
outsideAction == <<runVars, submitVars, valueVars, logVars, registryVars, adapterVars, runsVars, stepsVars, loginVars, mockVars>>

\* An agent that loaded its table, about to make one safe_fill / safe_click.
InitAction ==
    /\ RunIdle
    /\ SubmitIdle
    /\ ValueIdle
    /\ LogIdle
    /\ RegistryIdle
    /\ AdapterIdle
    /\ RunsIdle
    /\ StepsIdle
    /\ LoginIdle
    /\ MockIdle
    /\ statsFile \in {FileOf(t) : t \in WrittenTables} \cup {NoFile}
    /\ selector_stats = _load_selector_stats(statsFile)
    /\ loadedTable = selector_stats
    /\ spc = "idle"
    /\ call = NoCall
    /\ ret = NoRet
    /\ recN = [x \in Locators |-> 0]
    /\ recS = [x \in Locators |-> 0]
    /\ callBefore = EmptyTable
    /\ callLog = <<>>
    /\ orderIn = <<>>
    /\ orderOut = <<>>
    /\ trace = <<>>

\* safe_fill / safe_click up to the loops.
ActionBegin ==
    /\ spc = "idle"
    /\ \E kind \in {"fill", "click"}, selectors \in ActionCandLists, retries \in RetryCounts :
         call' = [kind |-> kind, selectors |-> selectors,
                  ordered |-> _score_and_order_selectors(selector_stats, selectors),
                  retries |-> retries, i |-> 1, attempt |-> 1]
    /\ callBefore' = selector_stats
    /\ spc' = "trying"
    /\ UNCHANGED <<selector_stats, statsFile, ret, loadedTable, recN, recS, callLog,
                   orderIn, orderOut, trace>>
    /\ UNCHANGED outsideAction

\* The body of the two loops for the attempt e: the events are logged, the
\* outcome is recorded, and the call returns or goes on.
ActionAttempt(e) ==
    /\ spc = "trying"
    /\ HasAttempt(call)
    /\ trace' = Append(trace, e)
    /\ \E saved \in BOOLEAN : Record(e.selector, e.success, saved)
    /\ callLog' = Append(callLog, [selector |-> e.selector, success |-> e.success])
    /\ IF ReturnsOn(e, call)
       THEN /\ ret' = [ok |-> TRUE, used |-> e.selector]
            /\ spc' = "returned"
            /\ UNCHANGED call
       ELSE /\ call' = Advance(call)
            /\ UNCHANGED <<ret, spc>>
    /\ UNCHANGED <<loadedTable, callBefore, orderIn, orderOut>>
    /\ UNCHANGED outsideAction

FillAttempt ==
    /\ call.kind = "fill"
    /\ HasAttempt(call)
    /\ \E waited \in WaitOutcomes, filled, evaluated \in BOOLEAN :
          ActionAttempt(FillAttemptOf(call.ordered[call.i], call.attempt, waited, filled, evaluated))

ClickAttempt ==
    /\ call.kind = "click"
    /\ HasAttempt(call)
    /\ \E waited \in WaitOutcomes, clicked \in ClickOutcomes :
          ActionAttempt(ClickAttemptOf(call.ordered[call.i], call.attempt, waited, clicked))

\* return False, None
ActionReturnFailure ==
    /\ spc = "trying"
    /\ ~HasAttempt(call)
    /\ ret' = [ok |-> FALSE, used |-> None]
    /\ spc' = "returned"
    /\ UNCHANGED <<selector_stats, statsFile, call, loadedTable, recN, recS,
                   callBefore, callLog, orderIn, orderOut, trace>>
    /\ UNCHANGED outsideAction

NextAction ==
    \/ ActionBegin
    \/ FillAttempt
    \/ ClickAttempt
    \/ ActionReturnFailure

SpecAction == InitAction /\ [][NextAction]_vars

\* ------------------------------- specification of runs sharing the stats file
outsideRuns == <<runVars, statsVars, submitVars, valueVars, logVars, registryVars,
                 adapterVars, traceVars, stepsVars, loginVars, mockVars>>

\* Records made so far, over both runs.
RunsRecorded == SumOver(runRecN["run1"], Locators) + SumOver(runRecN["run2"], Locators)

InitRuns ==
    /\ RunIdle
    /\ StatsIdle
    /\ SubmitIdle
    /\ ValueIdle
    /\ LogIdle
    /\ RegistryIdle
    /\ AdapterIdle
    /\ TraceIdle
    /\ StepsIdle
    /\ LoginIdle
    /\ MockIdle
    /\ runTable = [r \in Runs |-> EmptyTable]
    /\ runPc = [r \in Runs |-> "new"]
    /\ sharedFile \in {FileOf(t) : t \in WrittenTables} \cup {NoFile}
    /\ fileSize = SizeOfFile(sharedFile)
    /\ runLoaded = [r \in Runs |-> EmptyTable]
    /\ runRecN = [r \in Runs |-> [x \in Locators |-> 0]]
    /\ runRecS = [r \in Runs |-> [x \in Locators |-> 0]]
    /\ lastSave = NoSave
    /\ lastWritten = NoWrite

\* GenericUIAgent.__init__ of run r: self.selector_stats = _load_selector_stats()
RunLoad ==
    \E r \in Runs :
        /\ runPc[r] = "new"
        /\ runTable' = [runTable EXCEPT ![r] = _load_selector_stats(sharedFile)]
        /\ runLoaded' = [runLoaded EXCEPT ![r] = _load_selector_stats(sharedFile)]
        /\ runPc' = [runPc EXCEPT ![r] = "idle"]
        /\ UNCHANGED <<sharedFile, fileSize, runRecN, runRecS, lastSave, lastWritten>>
        /\ UNCHANGED outsideRuns

\* _update_selector_stats(selector, success) of run r up to the open of
\* write_text: the table is updated and the file truncated.
RunRecord ==
    \E r \in Runs, s \in Locators, success \in BOOLEAN, how \in OpenOutcomes :
        /\ runPc[r] = "idle"
        /\ RunsRecorded < MaxRecords
        /\ runTable' = [runTable EXCEPT ![r] = _update_selector_stats(runTable[r], s, success)]
        /\ runRecN' = [runRecN EXCEPT ![r][s] = @ + 1]
        /\ runRecS' = [runRecS EXCEPT ![r][s] = @ + (IF success THEN 1 ELSE 0)]
        /\ IF how = "opened"
           THEN /\ sharedFile' = NoFile
                /\ fileSize' = 0
                /\ runPc' = [runPc EXCEPT ![r] = "writing"]
                /\ UNCHANGED lastSave
           ELSE /\ lastSave' = [run |-> r, outcome |-> "failed", table |-> runTable'[r]]
                /\ UNCHANGED <<sharedFile, fileSize, runPc>>
        /\ UNCHANGED <<runLoaded, lastWritten>>
        /\ UNCHANGED outsideRuns

\* The write of write_text of run r, and the return of _update_selector_stats.
RunWrite ==
    \E r \in Runs, how \in WriteOutcomes :
        /\ runPc[r] = "writing"
        /\ sharedFile' = _save_selector_stats(sharedFile, fileSize, runTable[r], how)
        /\ fileSize' = IF how = "written" /\ TextSize(runTable[r]) >= fileSize
                       THEN TextSize(runTable[r]) ELSE fileSize
        /\ lastSave' = [run |-> r, outcome |-> how, table |-> runTable[r]]
        /\ lastWritten' = IF how = "written" THEN [run |-> r, table |-> runTable[r], intact |-> TRUE]
                          ELSE lastWritten
        /\ runPc' = [runPc EXCEPT ![r] = "idle"]
        /\ UNCHANGED <<runTable, runLoaded, runRecN, runRecS>>
        /\ UNCHANGED outsideRuns

NextRuns ==
    \/ RunLoad
    \/ RunRecord
    \/ RunWrite

SpecRuns == InitRuns /\ [][NextRuns]_vars

\* --------------------------------------------------------- execute_steps
outsideSteps == <<runVars, statsVars, submitVars, valueVars, logVars, registryVars,
                  adapterVars, traceVars, runsVars, loginVars, mockVars>>

InitSteps ==
    /\ RunIdle
    /\ StatsIdle
    /\ SubmitIdle
    /\ ValueIdle
    /\ LogIdle
    /\ RegistryIdle
    /\ AdapterIdle
    /\ TraceIdle
    /\ RunsIdle
    /\ LoginIdle
    /\ MockIdle
    /\ stepSeq \in RunStepLists
    /\ stepIntent \in RunIntents
    /\ si = 1
    /\ epc = "loop"
    /\ execRet = NoExecRet
    /\ stepLog = <<>>

\* The step the loop is at.
AtStep(action) ==
    /\ epc = "loop"
    /\ si <= Len(stepSeq)
    /\ IF action = "other" THEN stepSeq[si].action \notin {"click", "fill"}
       ELSE stepSeq[si].action = action

\* The step is over: its entry is logged and the loop goes on.
StepDone(entry) ==
    /\ stepLog' = Append(stepLog, entry)
    /\ si' = AfterStep(si, entry.result, Len(stepSeq))
    /\ UNCHANGED <<stepSeq, stepIntent, epc, execRet>>
    /\ UNCHANGED outsideSteps

\* action == "click": safe_click and step_end.
StepClick ==
    /\ AtStep("click")
    /\ \E clicked \in BOOLEAN :
         StepDone(StepEntry(si - 1, "click", clicked, IF clicked THEN "ok" ELSE "failed"))

\* action == "fill", the value resolved without a raise: safe_fill, the label
\* fallback and step_end.
StepFill ==
    /\ AtStep("fill")
    /\ FilledValue(stepSeq[si], stepIntent) # Raised
    /\ \E primaryOk, placeholder, labelOk \in BOOLEAN, lbl \in PageLabels :
         LET o == FillStepOutcome(stepSeq[si], primaryOk, find_field_by_label(lbl, placeholder), labelOk)
         IN StepDone([index |-> si - 1, action |-> "fill", primary |-> o.primary,
                      searched |-> o.searched, found |-> o.found, labelFills |-> o.labelFills,
                      labelOk |-> o.labelOk, result |-> IF o.ok THEN "ok" ELSE "failed",
                      events |-> StepEvents(si - 1, "fill", IF o.ok THEN "ok" ELSE "failed",
                                            o.labelOk)])

\* action == "fill", the value lookup raises: the except around the loop
\* returns False.
StepFillRaises ==
    /\ AtStep("fill")
    /\ FilledValue(stepSeq[si], stepIntent) = Raised
    /\ stepLog' = Append(stepLog, StepEntry(si - 1, "fill", FALSE, "raised"))
    /\ execRet' = FALSE
    /\ epc' = "returned"
    /\ UNCHANGED <<stepSeq, stepIntent, si>>
    /\ UNCHANGED outsideSteps

\* Any other action: step_unknown_action.
StepUnknown ==
    /\ AtStep("other")
    /\ StepDone(StepEntry(si - 1, stepSeq[si].action, FALSE, "unknown"))

\* return True
StepsReturn ==
    /\ epc = "loop"
    /\ si > Len(stepSeq)
    /\ execRet' = TRUE
    /\ epc' = "returned"
    /\ UNCHANGED <<stepSeq, stepIntent, si, stepLog>>
    /\ UNCHANGED outsideSteps

NextSteps ==
    \/ StepClick
    \/ StepFill
    \/ StepFillRaises
    \/ StepUnknown
    \/ StepsReturn

SpecSteps == InitSteps /\ [][NextSteps]_vars

\* ------------------------------------------------- login after the click
outsideLogin == <<runVars, statsVars, submitVars, valueVars, logVars, registryVars,
                  adapterVars, traceVars, runsVars, stepsVars, mockVars>>

InitLogin ==
    /\ RunIdle
    /\ StatsIdle
    /\ SubmitIdle
    /\ ValueIdle
    /\ LogIdle
    /\ RegistryIdle
    /\ AdapterIdle
    /\ TraceIdle
    /\ RunsIdle
    /\ StepsIdle
    /\ MockIdle
    /\ imapUser \in BOOLEAN
    /\ timeout_seconds \in 0..MaxPollTimeout
    /\ poll_interval \in {0, 1}
    /\ gpc = "clicked"
    /\ clock = 0
    /\ deadline = 0
    /\ waitStart = 0
    /\ passcode = None
    /\ loginRet = FALSE
    /\ fetchLog = <<>>
    /\ polls = 0
    /\ lastPollAt = 0
    /\ fillTried = FALSE

\* if self._detect_passcode_prompt(page, cfg): ... else: the wait for the
\* post-login page.
DetectPasscodePrompt ==
    /\ gpc = "clicked"
    /\ \E detected \in BOOLEAN :
         /\ gpc' = IF detected THEN "imap" ELSE "confirm"
         /\ waitStart' = IF detected THEN waitStart ELSE clock
    /\ UNCHANGED <<imapUser, timeout_seconds, poll_interval, clock, deadline, passcode, loginRet,
                   fetchLog, polls, lastPollAt, fillTried>>
    /\ UNCHANGED outsideLogin

\* passcode_fetch_attempted imap; _fetch_passcode_via_imap up to its loop:
\* None at once without credentials, else the deadline is set.
ImapBegin ==
    /\ gpc = "imap"
    /\ fetchLog' = Append(fetchLog, "imap")
    /\ IF imapUser
       THEN /\ deadline' = clock + timeout_seconds
            /\ gpc' = "poll"
       ELSE /\ gpc' = NextSource(None)
            /\ UNCHANGED deadline
    /\ UNCHANGED <<imapUser, timeout_seconds, poll_interval, clock, waitStart, passcode, loginRet,
                   polls, lastPollAt, fillTried>>
    /\ UNCHANGED outsideLogin

\* One pass of the polling loop: connect, login, search, read the recent
\* mails; return the code or None, or sleep poll_interval and go round.
ImapPoll ==
    /\ gpc = "poll"
    /\ PollAgain(clock, deadline)
    /\ polls' = polls + 1
    /\ lastPollAt' = clock
    /\ \E how \in PollOutcomes, took \in 1..MaxOpTicks :
         CASE how = "code" ->
                /\ passcode' = "123456"
                /\ gpc' = NextSource("123456")
                /\ clock' = clock + took
           [] how = "login_failed" ->
                /\ gpc' = NextSource(None)
                /\ clock' = clock + took
                /\ UNCHANGED passcode
           [] OTHER ->
                /\ clock' = clock + took + poll_interval
                /\ UNCHANGED <<gpc, passcode>>
    /\ UNCHANGED <<imapUser, timeout_seconds, poll_interval, deadline, waitStart, loginRet,
                   fetchLog, fillTried>>
    /\ UNCHANGED outsideLogin

\* The deadline has passed: return None.
ImapDeadline ==
    /\ gpc = "poll"
    /\ ~PollAgain(clock, deadline)
    /\ gpc' = NextSource(None)
    /\ UNCHANGED <<imapUser, timeout_seconds, poll_interval, clock, deadline, waitStart, passcode,
                   loginRet, fetchLog, polls, lastPollAt, fillTried>>
    /\ UNCHANGED outsideLogin

\* passcode_fetch_attempted inbox; _fetch_passcode_from_inbox; without a
\* passcode passcode_fetch_failed and return False.
InboxScan ==
    /\ gpc = "inbox"
    /\ fetchLog' = Append(fetchLog, "inbox")
    /\ \E scraped \in {None, "654321"}, took \in 1..MaxOpTicks :
         /\ passcode' = IF passcode # None THEN passcode ELSE scraped
         /\ clock' = clock + took
         /\ IF passcode' # None
            THEN /\ gpc' = "fill"
                 /\ UNCHANGED loginRet
            ELSE /\ gpc' = "returned"
                 /\ loginRet' = FALSE
    /\ UNCHANGED <<imapUser, timeout_seconds, poll_interval, deadline, waitStart, polls,
                   lastPollAt, fillTried>>
    /\ UNCHANGED outsideLogin

\* The passcode selectors, the verify buttons, and on to the wait.
FillPasscode ==
    /\ gpc = "fill"
    /\ fillTried' = TRUE
    /\ gpc' = "confirm"
    /\ waitStart' = clock
    /\ UNCHANGED <<imapUser, timeout_seconds, poll_interval, clock, deadline, passcode, loginRet,
                   fetchLog, polls, lastPollAt>>
    /\ UNCHANGED outsideLogin

\* One pass of the loop of _wait_for_login_completion: a post-login selector
\* or URL is there, or the pass takes its time and the loop goes round.
ConfirmCheck ==
    /\ gpc = "confirm"
    /\ WaitAgain(clock, waitStart)
    /\ \E there \in BOOLEAN, took \in 1..MaxOpTicks :
         IF there
         THEN /\ loginRet' = TRUE
              /\ gpc' = "returned"
              /\ UNCHANGED clock
         ELSE /\ clock' = clock + took
              /\ UNCHANGED <<loginRet, gpc>>
    /\ UNCHANGED <<imapUser, timeout_seconds, poll_interval, deadline, waitStart, passcode,
                   fetchLog, polls, lastPollAt, fillTried>>
    /\ UNCHANGED outsideLogin

\* login_confirm_timeout: return False.
ConfirmTimeout ==
    /\ gpc = "confirm"
    /\ ~WaitAgain(clock, waitStart)
    /\ loginRet' = FALSE
    /\ gpc' = "returned"
    /\ UNCHANGED <<imapUser, timeout_seconds, poll_interval, clock, deadline, waitStart, passcode,
                   fetchLog, polls, lastPollAt, fillTried>>
    /\ UNCHANGED outsideLogin

NextLogin ==
    \/ DetectPasscodePrompt
    \/ ImapBegin
    \/ ImapPoll
    \/ ImapDeadline
    \/ InboxScan
    \/ FillPasscode
    \/ ConfirmCheck
    \/ ConfirmTimeout

SpecLogin == InitLogin /\ [][NextLogin]_vars
\* Every pass of the loops takes its time and the calls return.
FairSpecLogin == SpecLogin /\ WF_vars(NextLogin)

\* ------------------------------------------------- mock DOM step generator
outsideMock == <<runVars, statsVars, submitVars, valueVars, logVars, registryVars,
                 adapterVars, traceVars, runsVars, stepsVars, loginVars>>

InitMock ==
    /\ RunIdle
    /\ StatsIdle
    /\ SubmitIdle
    /\ ValueIdle
    /\ LogIdle
    /\ RegistryIdle
    /\ AdapterIdle
    /\ TraceIdle
    /\ RunsIdle
    /\ StepsIdle
    /\ LoginIdle
    /\ useMock \in BOOLEAN
    /\ parsedIn \in ParsedObjects
    /\ mpc = "parse"
    /\ finalIntent = NoBundle
    /\ inferOut = NoBundle
    /\ bundles = <<>>
    /\ llmAsked = 0

\* parse_instruction, lines 391-409: with the flag the generated steps and
\* fields are attached to the parsed object.
ParseAttach ==
    /\ mpc = "parse"
    /\ IF useMock
       THEN /\ bundles' = Append(bundles, generate_dom_steps(parsedIn))
            /\ finalIntent' = generate_dom_steps(parsedIn)
       ELSE UNCHANGED <<bundles, finalIntent>>
    /\ mpc' = "parsed"
    /\ UNCHANGED <<useMock, parsedIn, inferOut, llmAsked>>
    /\ UNCHANGED outsideMock

\* The same instruction parsed once more.
ParseAgain ==
    /\ mpc = "parsed"
    /\ useMock
    /\ Len(bundles) < 2
    /\ bundles' = Append(bundles, generate_dom_steps(parsedIn))
    /\ finalIntent' = generate_dom_steps(parsedIn)
    /\ UNCHANGED <<useMock, parsedIn, mpc, inferOut, llmAsked>>
    /\ UNCHANGED outsideMock

\* infer_steps_with_llm: None at once with the flag, else the LLM is asked.
InferSteps ==
    /\ mpc = "parsed"
    /\ IF useMock
       THEN UNCHANGED <<inferOut, llmAsked>>
       ELSE /\ llmAsked' = llmAsked + 1
            /\ inferOut' \in LlmBundles
    /\ mpc' = "inferred"
    /\ UNCHANGED <<useMock, parsedIn, finalIntent, bundles>>
    /\ UNCHANGED outsideMock

NextMock ==
    \/ ParseAttach
    \/ ParseAgain
    \/ InferSteps

SpecMock == InitMock /\ [][NextMock]_vars

\* =================================================================== claims
IsStatusResult(r) == "status" \in DOMAIN r
IsKeyedResult(r) == "key" \in DOMAIN r
Resolved == _resolve_adapter(provider, cfg)
Finished == pc = "done"
\* The run ended without a fault reaching the outer except clause.
NoFault == boundaryRuns = 0
\* What the fallback sites hand back for an adapter reply, written out.
Handed(reply) ==
    IF reply.raised
    THEN [status |-> "error", raw |-> FALSE, error |-> "adapter fallback failed"]
    ELSE [reply.res EXCEPT !.raw = @ /\ DEBUG_RETURN_RAW]

\* C1: every call of the top-level create_ticket comes back with a result (no
\* exception reaches the caller), and the result is a status dict with status
\* dry-run / ok / failed / error or the adapter's result keyed by the provider,
\* the inner run having returned rather than raised.
C1_NoExceptionEscapes ==
    Finished =>
        /\ outcome = "returned"
        /\ exitPath # "agent_raised"
        /\ \/ IsStatusResult(result) /\ result.status \in {"dry-run", "ok", "failed", "error"}
           \/ IsKeyedResult(result) /\ result.key = provider

\* C2: once a browser handle was acquired, no run leaves the with block with it
\* still open: on the ok / failed return, on each adapter-fallback return, on
\* each error return and on a raised fault alike the handle is closed, once.
C2_BrowserClosedOnEveryExit ==
    /\ pc \in {"pw_exit", "boundary", "shim_return", "shim_except", "done"} => browser # "open"
    /\ browser = "closed" <=> closeCalls = 1
    /\ closeCalls <= 1
    /\ (Finished /\ exitPath \in {"sso_timeout", "login_failed", "no_steps", "completed", "fault"})
          => browser = "closed"

C2_Witness ==
    /\ Finished
    /\ browser = "closed"
    /\ exitPath = "login_failed"
    /\ boundaryRuns = 1

\* C3: a dry run that passed the provider validation returns status dry-run
\* with exactly the intent's steps, and no browser is launched.
C3_DryRunReturnsSteps ==
    (Finished /\ dry_run /\ exitPath \notin {"shim_validation", "constructor"})
        => /\ result = ResDryRun(IF Truthy(intent.steps) THEN intent.steps ELSE PyList(<<>>))
           /\ browser = "none"

\* C4: a completed run whose submit attempt found no working strategy reports
\* status failed together with the number of steps, never ok.
C4_SubmitExhaustedReportsFailed ==
    (Finished /\ exitPath = "completed" /\ NoFault /\ submitAttempts = 1 /\ ~submitOk)
        => /\ IsStatusResult(result)
           /\ result.status = "failed"
           /\ result.executed_steps = Len(steps.items)

\* C5: with the debug flag off, no adapter result handed back under the
\* provider key carries a raw payload, on the shim's fallback path included.
C5_NoRawWhenDebugOff ==
    (Finished /\ IsKeyedResult(result) /\ ~DEBUG_RETURN_RAW) => ~result.value.raw


\* The SSO scenario: a login block, an SSO phrase on the page, a session that
\* is not persistent, and no post-login marker after the manual wait.
SSOScenario == cfg.login /\ ssoSeen = "yes" /\ ~is_persistent /\ ssoMarker = "absent"

\* C6 as stated: in the SSO scenario the run executes no UI step, attempts no
\* submit, and its result is the adapter's fallback result keyed by the
\* provider name, without raw when the debug flag is off.
C6_SSOFallbackKeyed ==
    SSOScenario =>
        /\ uiSteps = 0 /\ submitAttempts = 0
        /\ (Finished /\ NoFault) =>
              /\ IsKeyedResult(result)
              /\ result.key = provider
              /\ Len(adapterLog) = 1
              /\ result.value = Handed(adapterLog[1])

\* C6, amended: in the SSO scenario the run executes no UI step, asks for no
\* steps and attempts no submit; when an adapter resolves for the provider it
\* is called once and the result is its answer keyed by the provider name,
\* without raw when the debug flag is off; when none resolves the result is the
\* error "SSO required and no adapter for provider".
C6_SSOFallbackOrError ==
    SSOScenario =>
        /\ uiSteps = 0 /\ submitAttempts = 0 /\ inferCalls = 0 /\ loginAttempts = 0
        /\ (Finished /\ NoFault) =>
              IF Resolved = None
              THEN /\ result = ResError("SSO required and no adapter for provider")
                   /\ adapterLog = <<>>
              ELSE /\ IsKeyedResult(result)
                   /\ result.key = provider
                   /\ Len(adapterLog) = 1
                   /\ result.value = Handed(adapterLog[1])
                   /\ (~DEBUG_RETURN_RAW => ~result.value.raw)

\* A custom adapter answered with a raw payload, the flag is off, and the
\* payload is gone from the result.
C6_Witness ==
    /\ SSOScenario /\ Finished /\ NoFault
    /\ ~DEBUG_RETURN_RAW
    /\ Len(adapterLog) = 1
    /\ ~adapterLog[1].raised /\ adapterLog[1].res.raw
    /\ IsKeyedResult(result) /\ ~result.value.raw /\ result.value.status = "ok"

\* C7: with a login block and no SSO detected, a scripted login is attempted
\* once; when it fails (missing credentials, no login button clicked, no
\* passcode, no post-login signal within the bound) the run executes no UI
\* step, asks for no steps and attempts no submit, and the result is the
\* adapter's answer keyed by the provider, or a status-error result when no
\* adapter resolves.
C7_LoginFailureFallsBack ==
    /\ (cfg.login /\ ssoSeen = "no" /\ pc # "login") => loginAttempts = 1
    /\ loginFail # "none" =>
          /\ loginAttempts = 1
          /\ loginFail \in {"no_credentials", "no_login_button", "no_passcode", "not_confirmed"}
          /\ uiSteps = 0 /\ submitAttempts = 0 /\ inferCalls = 0
          /\ (Finished /\ NoFault) =>
                IF Resolved = None
                THEN /\ IsStatusResult(result)
                     /\ result.status = "error"
                     /\ adapterLog = <<>>
                ELSE /\ IsKeyedResult(result)
                     /\ result.key = provider
                     /\ Len(adapterLog) = 1
                     /\ result.value = Handed(adapterLog[1])

C7_Witness ==
    /\ Finished /\ NoFault
    /\ loginFail = "no_passcode"
    /\ IsKeyedResult(result)
    /\ result.value.status = "ok"


\* The run is at or past the point where it holds the steps it will use.
StepsObtained == pc \in {"check_steps", "exec", "submit", "finish"} \/ exitPath \in {"no_steps", "completed"}
\* What the inference collaborator yielded, as steps.
StepsOfInference ==
    IF inferReply = NoInference THEN intent.steps
    ELSE IF inferReply.steps = PyNone THEN PyList(<<>>) ELSE inferReply.steps

\* C8: when the intent carries steps they are the run's steps and the
\* inference collaborator is never consulted; otherwise inference is consulted
\* once and its steps are the run's steps; and when neither yields a step the
\* run takes the adapter fallback, having executed no step and attempted no
\* submit.
C8_StepSource ==
    /\ Truthy(intent.steps) =>
          /\ inferCalls = 0 /\ llmCalls = 0
          /\ StepsObtained => steps = intent.steps
    /\ (~Truthy(intent.steps) /\ StepsObtained) =>
          /\ inferCalls = 1
          /\ llmCalls = IF USE_MOCK_DOM THEN 0 ELSE 1
          /\ steps = StepsOfInference
    /\ (StepsObtained /\ ~Truthy(steps) /\ pc # "check_steps") =>
          /\ exitPath = "no_steps"
          /\ uiSteps = 0 /\ submitAttempts = 0
          /\ (Finished /\ NoFault) =>
                IF Resolved = None THEN IsStatusResult(result) /\ result.status = "error"
                ELSE IsKeyedResult(result) /\ result.key = provider
    /\ (uiSteps > 0 \/ submitAttempts > 0) => Truthy(steps)

\* Steps came from the intent, were executed and submitted, inference unasked.
C8_Witness ==
    /\ Finished /\ NoFault
    /\ Truthy(intent.steps)
    /\ uiSteps = Len(intent.steps.items) /\ submitAttempts = 1
    /\ inferCalls = 0
    /\ result = ResFinal(TRUE, Len(intent.steps.items))

\* A run that came to step acquisition with no steps in the intent and no
\* adapter for the provider, and ended without a fault.
NoStepsNoAdapter ==
    /\ Finished /\ NoFault
    /\ inferCalls = 1
    /\ ~Truthy(intent.steps)
    /\ Resolved = None

\* C9 as stated: no adapter, no steps in the intent and mock inference disabled
\* give the error "no steps and no adapter for provider".
C9_NoStepsNoAdapterError ==
    (NoStepsNoAdapter /\ ~USE_MOCK_DOM)
        => result = ResError("no steps and no adapter for provider")

\* C9, amended: no adapter, no steps in the intent, and an inference that
\* yields no steps (the mock flag is set, or the model returns none) give the
\* error "no steps and no adapter for provider".
C9_NoStepsAnywhereError ==
    (NoStepsNoAdapter /\ (USE_MOCK_DOM \/ ~Truthy(inferReply.steps)))
        => /\ result = ResError("no steps and no adapter for provider")
           /\ uiSteps = 0 /\ submitAttempts = 0
           /\ adapterLog = <<>>

\* The model was asked, returned nothing, and the error came back.
C9_Witness ==
    /\ NoStepsNoAdapter
    /\ ~USE_MOCK_DOM /\ llmCalls = 1
    /\ result = ResError("no steps and no adapter for provider")

\* Adapter calls made before the except clause ran.
PriorAdapterCalls ==
    IF Resolved # None /\ exitPath \in {"sso_timeout", "login_failed", "no_steps"} THEN 1 ELSE 0

Fresh(s) == spc # "new" /\ s \notin DOMAIN loadedTable

\* C11: a selector never attempted scores 0.0; a selector that started without
\* an entry and was recorded N >= 1 times, S of them successes, has the entry
\* tries = N, successes = S and the score S/N, which lies between 0 and 1.
C11_ScoreIsSuccessRatio ==
    \A s \in Locators :
        /\ Entry(selector_stats, s).tries = 0 => score(selector_stats, s) = <<0, 1>>
        /\ Fresh(s) =>
              IF recN[s] = 0
              THEN /\ s \notin DOMAIN selector_stats
                   /\ score(selector_stats, s) = <<0, 1>>
              ELSE /\ s \in DOMAIN selector_stats
                   /\ selector_stats[s] = [tries |-> recN[s], successes |-> recS[s]]
                   /\ score(selector_stats, s) = <<recS[s], recN[s]>>
                   /\ 0 <= recS[s] /\ recS[s] <= recN[s]

\* Two records on a fresh selector, one of them a success: score 1/2.
C11_Witness ==
    \E s \in Locators :
        /\ Fresh(s)
        /\ recN[s] = 2 /\ recS[s] = 1
        /\ ScoreEQ(score(selector_stats, s), <<1, 2>>)

\* C12: in every state of the table, from the load on and through any sequence
\* of fill, click and record operations, every entry has
\* 0 <= successes <= tries; so has every entry of the persisted table.
C12_SuccessesAtMostTries ==
    /\ \A s \in DOMAIN selector_stats :
          /\ 0 <= selector_stats[s].successes
          /\ selector_stats[s].successes <= selector_stats[s].tries
    /\ \A s \in DOMAIN statsFile.table :
          /\ 0 <= statsFile.table[s].successes
          /\ statsFile.table[s].successes <= statsFile.table[s].tries

\* A loaded entry without successes, recorded again during a click call.
C12_Witness ==
    \E s \in DOMAIN loadedTable :
        /\ loadedTable[s].successes = 0
        /\ call.kind = "click"
        /\ Len(callLog) >= 1
        /\ selector_stats[s].tries > loadedTable[s].tries
        /\ selector_stats[s].successes = 1

\* out is a reordering of in by a permutation p that puts scores in descending
\* order and keeps elements of equal score in their order of in.
IsStableDescending(t, in, out) ==
    /\ Len(out) = Len(in)
    /\ \E p \in [1..Len(in) -> 1..Len(in)] :
          /\ \A i, j \in 1..Len(in) : i # j => p[i] # p[j]
          /\ \A i \in 1..Len(in) : out[i] = in[p[i]]
          /\ \A i, j \in 1..Len(in) :
                i < j => /\ ~ScoreGT(score(t, out[j]), score(t, out[i]))
                         /\ ScoreEQ(score(t, out[i]), score(t, out[j])) => p[i] < p[j]

\* The table is the loaded one plus the records made, nothing else.
TableIsLoadPlusRecords ==
    spc # "new" =>
        \A s \in Locators :
            /\ Entry(selector_stats, s).tries = Entry(loadedTable, s).tries + recN[s]
            /\ Entry(selector_stats, s).successes = Entry(loadedTable, s).successes + recS[s]

\* C13: the answer of order is a permutation of its input, in descending order
\* of score, equal scores in their input order; the call leaves the table as it
\* was. The same holds of the ordering safe_fill / safe_click start from.
C13_OrderIsStablePermutation ==
    /\ IsStableDescending(selector_stats, orderIn, orderOut)
    /\ spc = "trying" => IsStableDescending(callBefore, call.selectors, call.ordered)
    /\ TableIsLoadPlusRecords

\* Two candidates given in ascending order of score come back swapped.
C13_Witness ==
    /\ Len(orderIn) = 2
    /\ orderOut = <<orderIn[2], orderIn[1]>>
    /\ ScoreGT(score(selector_stats, orderIn[2]), score(selector_stats, orderIn[1]))

\* How often s occurs in a candidate list, and how many failures a call recorded on s.
Occurrences(seq, s) == Cardinality({k \in 1..Len(seq) : seq[k] = s})
FailuresOn(s) == Cardinality({k \in 1..Len(callLog) : callLog[k].selector = s /\ ~callLog[k].success})
\* A safe_fill / safe_click call has returned (False, None).
ReturnedFailure == spc = "idle" /\ call.kind # "none" /\ ret # NoRet /\ ~ret.ok

\* C14 as stated: a call that ran out of candidates returns failure without a
\* selector, records no success, and records one failed attempt for each
\* candidate tried.
C14_OneFailurePerCandidate ==
    (ReturnedFailure /\ call.retries >= 1) =>
        /\ ret.used = None
        /\ \A k \in 1..Len(callLog) : ~callLog[k].success
        /\ \A s \in Locators : FailuresOn(s) = Occurrences(call.selectors, s)

\* C14, amended: a call that ran out of candidates returns failure without a
\* selector, records no success, and records one failed attempt for each
\* attempt made: per_selector_retries of them for each candidate, never more.
C14_OneFailurePerAttempt ==
    ReturnedFailure =>
        /\ ret.used = None
        /\ \A k \in 1..Len(callLog) : ~callLog[k].success
        /\ Len(callLog) = call.retries * Len(call.selectors)
        /\ \A s \in Locators :
              /\ FailuresOn(s) = call.retries * Occurrences(call.selectors, s)
              /\ Entry(selector_stats, s).successes = Entry(callBefore, s).successes
              /\ Entry(selector_stats, s).tries =
                    Entry(callBefore, s).tries + call.retries * Occurrences(call.selectors, s)

\* A fill over one candidate with two retries: two failures on record.
C14_Witness ==
    /\ ReturnedFailure
    /\ call.kind = "fill"
    /\ call.retries = 2
    /\ Len(call.selectors) = 1
    /\ Len(callLog) = 2


\* --------------------------------------------------------- submit resolver
\* Where x first occurs in seq.
FirstIndex(seq, x) == CHOOSE k \in 1..Len(seq) : seq[k] = x /\ \A j \in 1..(k - 1) : seq[j] # x
\* The k-th pair of the search: documents in order, and within a document the
\* candidates in order.
PairAt(k) ==
    << frames[((k - 1) \div Len(dedup)) + 1], dedup[((k - 1) % Len(dedup)) + 1] >>
SubmitStarted == subpc \in {"frames", "keyboard", "form", "done"}

\* C15: the candidate list is the provider's submit selectors followed by the
\* built-in list, each candidate once, in order of first occurrence; the pairs
\* are taken up document by document (the page first, then page.frames in
\* order) and candidate by candidate within a document; the keyboard shortcut
\* is tried only when every pair was taken up without a click going through,
\* and form.submit() only after the keyboard shortcut.
C15_SubmitOrder ==
    SubmitStarted =>
        LET all == submit_selectors \o BuiltinSubmitSelectors IN
        /\ \A i, j \in 1..Len(dedup) : i # j => dedup[i] # dedup[j]
        /\ {dedup[i] : i \in 1..Len(dedup)} = {all[i] : i \in 1..Len(all)}
        /\ \A i, j \in 1..Len(dedup) :
              i < j => FirstIndex(all, dedup[i]) < FirstIndex(all, dedup[j])
        /\ frames[1] = 0
        /\ \A k \in 2..Len(frames) : frames[k] = k - 1
        /\ Len(visited) <= Len(frames) * Len(dedup)
        /\ \A k \in 1..Len(visited) : visited[k] = PairAt(k)
        /\ keyboardTried =>
              /\ Len(visited) = Len(frames) * Len(dedup)
              /\ subret.used \notin {dedup[i] : i \in 1..Len(dedup)}
        /\ formTried => keyboardTried
        /\ (subpc = "done" /\ subret.ok /\ subret.used \notin {"keyboard", "form.submit()"}) =>
              /\ ~keyboardTried /\ ~formTried
              /\ subret.used = visited[Len(visited)][2]
        /\ (subpc = "done" /\ subret.used = "form.submit()") => formTried
        /\ (subpc = "done" /\ ~subret.ok) => formTried /\ subret.used = None

\* A provider list that repeats a built-in selector, two frames besides the
\* page, every pair without a click, the keyboard raising, form.submit() working.
C15_Witness ==
    /\ subpc = "done"
    /\ submit_selectors = <<"button:has-text('Save')", "#send">>
    /\ Len(dedup) = 8
    /\ Len(frames) = 3
    /\ Len(visited) = 24
    /\ subret = [ok |-> TRUE, used |-> "form.submit()"]


\* ------------------------------------------------------ fill value of a step
\* The step names a field of intent["fields"] by a reference "fields.<name>...".
RefersToField(name) ==
    LET vs == ValueSourceOf(fillStep) IN Len(vs) >= 2 /\ vs[1] = "fields" /\ vs[2] = name
\* intent.fields.<name>.value is there.
FieldHasValue(name) ==
    /\ fillIntent.fields.present
    /\ name \in DOMAIN fillIntent.fields.map
    /\ fillIntent.fields.map[name].isDict
    /\ TruthyStr(fillIntent.fields.map[name].value)

\* C16: the value filled is the step's literal value when it has one; without
\* one, when the step's value source refers to fields.<name>, the value of
\* intent.fields.<name>.value; without either, the target looked up in the
\* intent and then in intent.fields. A step with value source
\* "fields.subject.value" and intent.fields.subject.value = "Login issue"
\* fills "Login issue", not the empty string.
C16_FillValueResolution ==
    vpc = "done" =>
        /\ TruthyStr(fillStep.value) => fillVal = fillStep.value
        /\ \A name \in FieldNames :
              (~TruthyStr(fillStep.value) /\ RefersToField(name) /\ FieldHasValue(name))
                  => fillVal = fillIntent.fields.map[name].value
        /\ (~TruthyStr(fillStep.value) /\ ~StartsWithFields(ValueSourceOf(fillStep))
               /\ TruthyStr(fillStep.target)) =>
              IF TruthyStr(TopLevel(fillIntent, fillStep.target))
              THEN fillVal = TopLevel(fillIntent, fillStep.target)
              ELSE IF FieldHasValue(fillStep.target)
              THEN fillVal = fillIntent.fields.map[fillStep.target].value
              ELSE fillVal \in {"", Raised}
        /\ (fillStep.value = None /\ fillStep.value_source = <<"fields", "subject", "value">>
               /\ FieldHasValue("subject")) => fillVal = "Login issue"

\* The scenario of the claim: no literal, the reference, the field's value.
C16_Witness ==
    /\ vpc = "done"
    /\ fillStep.value = None
    /\ fillStep.value_source = <<"fields", "subject", "value">>
    /\ fillStep.target = "subject"
    /\ fillIntent.subject = "Top subject"
    /\ fillVal = "Login issue"


\* ------------------------------------------------------------------ audit log
\* The text holds an email address.
HasEmail(t) == \E i \in DOMAIN t : t[i] \in EmailLexemes
\* The text holds an API key or token behind its label.
HasLabelledToken(t) == \E i \in DOMAIN t : LabelledTokenAt(t, i)
\* The string is the value of an API key or token and nothing else.
IsTokenValue(obj) == obj.kind = "str" /\ Len(obj.text) = 1 /\ obj.text[1] \in TokenValues

\* An email address somewhere in the value, at any depth.
RECURSIVE ContainsEmail(_)
ContainsEmail(obj) ==
    \/ obj.kind = "str" /\ HasEmail(obj.text)
    \/ \E i \in DOMAIN obj.items : ContainsEmail(obj.items[i])

\* An API key or token somewhere in the value, at any depth: behind its label
\* inside a string, or as the value of a dict key that is such a label.
RECURSIVE ContainsToken(_)
ContainsToken(obj) ==
    \/ obj.kind = "str" /\ HasLabelledToken(obj.text)
    \/ obj.kind = "dict" /\ \E i \in DOMAIN obj.items :
           obj.keys[i] \in TokenLabels /\ IsTokenValue(obj.items[i])
    \/ \E i \in DOMAIN obj.items : ContainsToken(obj.items[i])

\* C17: every record in the audit log file was redacted before it was written:
\* no line holds an email address or an API key or token value, at whatever
\* depth of the logged record the string sits, and no unredacted record is
\* appended to the file.
C17_PersistedRecordsRedacted ==
    \A n \in DOMAIN logFile :
        /\ ~ContainsEmail(logFile[n])
        /\ ~ContainsToken(logFile[n])
        /\ logFile[n] = _redact_obj(logFile[n])

\* The part of C17 that the code keeps: no email address in any line.
C17_NoEmailPersisted ==
    \A n \in DOMAIN logFile : ~ContainsEmail(logFile[n])

\* A record whose step held the address two levels down was written.
C17_EmailWitness ==
    /\ lpc = "done"
    /\ Len(logFile) = 1
    /\ logStep.items[1].kind = "list"
    /\ ContainsEmail(logStep)


\* ------------------------------------------------------------ adapter registry
\* Two names are the same name: equal once case and surrounding whitespace are
\* set aside.
SameName(a, b) == Lower(Strip(a)) = Lower(Strip(b))
\* The registrations of an adapter object under a name that is the same as n.
RegistrationsUnder(n) ==
    {i \in DOMAIN registrations :
        /\ registrations[i][1] # ""
        /\ registrations[i][2] # None
        /\ SameName(registrations[i][1], n)}
Latest(S) == CHOOSE i \in S : \A j \in S : j <= i

\* C18: get_adapter(name) answers the adapter of the latest registration under
\* that name, names being the same when they differ only in case or in
\* surrounding whitespace; registrations under other names do not change the
\* answer; a name never registered answers absent; "freshdesk" and "zendesk"
\* answer the built-in adapters from the start.
C18_RegistryLookup ==
    (lastGet.called /\ lastGet.name # "") =>
        IF RegistrationsUnder(lastGet.name) # {}
        THEN lastGet.answer = registrations[Latest(RegistrationsUnder(lastGet.name))][2]
        ELSE IF SameName(lastGet.name, "freshdesk") THEN lastGet.answer = "freshdesk_adapter"
        ELSE IF SameName(lastGet.name, "zendesk") THEN lastGet.answer = "zendesk_adapter"
        ELSE lastGet.answer = None

\* Registered as " Dummy ", replaced as "dummy" after it, asked for as "dummy".
C18_Witness ==
    /\ lastGet.called
    /\ lastGet.name = "dummy"
    /\ Len(registrations) = 2
    /\ registrations[1] = <<" Dummy ", "adapterA">>
    /\ registrations[2] = <<"dummy", "adapterB">>
    /\ lastGet.answer = "adapterB"


\* --------------------------------------------------------- provider validation
\* The provider handed to ui_agent.create_ticket is empty.
EmptyProvider == providerArg = ""
\* The provider has neither a providers/<name>.json nor a registered adapter.
UnknownProvider == providerArg # "" /\ ~fileExists /\ Lower(Strip(providerArg)) \notin ADAPTERS
\* Nothing beyond the validation happened: no agent, no browser, no adapter call.
NothingStarted ==
    /\ agentsBuilt = 0
    /\ browser = "none" /\ closeCalls = 0
    /\ adapterLog = <<>>
    /\ loginAttempts = 0 /\ inferCalls = 0 /\ uiSteps = 0 /\ submitAttempts = 0

\* C19: ui_agent.create_ticket validates the provider first: an empty provider
\* returns {status: error, error: "provider is required"}, a provider with
\* neither a provider config nor a registered adapter returns {status: error}
\* naming the unknown provider, and in both cases no agent is constructed, no
\* browser is launched and no adapter is invoked.
C19_ProviderValidatedFirst ==
    /\ (EmptyProvider \/ UnknownProvider) => NothingStarted
    /\ (EmptyProvider /\ pc = "done") =>
           outcome = "returned" /\ result = ResError("provider is required")
    /\ (UnknownProvider /\ pc = "done") =>
           outcome = "returned" /\ result = ResError("unknown provider")

\* An unknown provider was turned away while the agent could not even be built.
C19_Witness ==
    /\ pc = "done"
    /\ providerArg = "acme"
    /\ UnknownProvider
    /\ store = "missing"
    /\ result = ResError("unknown provider")


\* ------------------------------------------------------------ provider adapter
\* C20: an adapter's create_ticket never raises, whatever the intent: missing
\* credentials, HTTP error statuses and transport failures come back as
\* {status: "error", ...}, and a successful call as {status: "ok", ...}.
C20_AdapterNeverRaises ==
    apc = "done" =>
        /\ ~adapterOut.raised
        /\ adapterOut.status \in {"ok", "error"}
        /\ (~credentials \/ http # "ok") => adapterOut.status = "error"
        /\ (credentials /\ http = "ok") => adapterOut.status = "ok"

\* The part of C20 that the code keeps: for an intent whose requester is a
\* dict or missing and whose priority is a string or missing, nothing raises.
C20_WellFormedIntentNeverRaises ==
    (apc = "done" /\ ~BodyRaises(adapterPayload)) =>
        /\ ~adapterOut.raised
        /\ (~credentials \/ http # "ok") => adapterOut.status = "error"
        /\ (credentials /\ http = "ok") => adapterOut.status = "ok"

\* --------------------------------------------------- one Fill / Click in detail
\* The attempts the trace holds on selector s.
AttemptsOn(s) == {k \in DOMAIN trace : trace[k].selector = s}

\* C21: every attempt of a Fill or Click, whether it succeeds, times out or
\* errors, makes exactly one scorer record for its candidate and at least one
\* audit log entry; a candidate never attempted gets no scorer record.
C21_OneRecordPerAttempt ==
    spc \in {"trying", "returned"} =>
        /\ \A k \in DOMAIN trace : Len(trace[k].events) >= 1
        /\ Len(callLog) = Len(trace)
        /\ \A s \in Locators :
              /\ Entry(selector_stats, s).tries
                    = Entry(callBefore, s).tries + Cardinality(AttemptsOn(s))
              /\ Entry(selector_stats, s).successes
                    = Entry(callBefore, s).successes
                         + Cardinality({k \in AttemptsOn(s) : trace[k].success})
              /\ AttemptsOn(s) = {} => Entry(selector_stats, s) = Entry(callBefore, s)

\* A click that timed out, then errored, then worked on the second candidate,
\* which leaves nothing recorded for a third.
C21_Witness ==
    /\ spc = "returned"
    /\ call.kind = "click"
    /\ Len(trace) = 3
    /\ trace[1].waited = "timeout"
    /\ trace[2].waited = "error"
    /\ trace[3].success
    /\ trace[3].selector # trace[1].selector

\* C22: Fill and Click try the candidates in scorer order, each for the
\* configured number of retries before the next one; a wait timeout or an error
\* is swallowed and leads to the next attempt, never ending the action; failure
\* is returned only after every candidate was tried for all its retries and
\* failed.
C22_ScorerOrderAllRetries ==
    spc \in {"trying", "returned"} =>
        /\ IsStableDescending(callBefore, call.selectors, call.ordered)
        /\ \A k \in DOMAIN trace :
              /\ call.retries > 0
              /\ trace[k].selector = call.ordered[((k - 1) \div call.retries) + 1]
              /\ trace[k].attempt = ((k - 1) % call.retries) + 1
              /\ k < Len(trace) => ~trace[k].success
        /\ (spc = "returned" /\ ~ret.ok) =>
              /\ ret.used = None
              /\ Len(trace) = call.retries * Len(call.ordered)
              /\ \A k \in DOMAIN trace : ~trace[k].success
        /\ (spc = "returned" /\ ret.ok) =>
              /\ trace # <<>>
              /\ trace[Len(trace)].success
              /\ ret.used = trace[Len(trace)].selector

\* Two candidates, reordered by score, two retries each, a timeout and an error
\* among the four failed attempts, and only then the failure.
C22_Witness ==
    /\ spc = "returned"
    /\ ~ret.ok
    /\ call.kind = "fill"
    /\ call.retries = 2
    /\ Len(call.selectors) = 2
    /\ call.ordered # call.selectors
    /\ Len(trace) = 4
    /\ trace[1].waited = "timeout"
    /\ trace[2].waited = "error"

\* C23: in Fill, an attempt whose element is found tries the primary fill first
\* and the script injection only if the primary fails; on success by either
\* mechanism the user-completion signals (blur, tab-out) and the settle delay
\* are performed, the success is recorded for the candidate, and Fill returns
\* success with that candidate.
C23_FillMechanismsAndSignals ==
    (call.kind = "fill" /\ spc \in {"trying", "returned"}) =>
        \A k \in DOMAIN trace :
            trace[k].waited = "ok" =>
                /\ trace[k].tried \in {<<"fill">>, <<"fill", "eval_on_selector">>}
                /\ (trace[k].tried = <<"fill">>) => trace[k].success
                /\ trace[k].success =>
                      /\ trace[k].signals
                      /\ trace[k].settled
                      /\ callLog[k] = [selector |-> trace[k].selector, success |-> TRUE]
                      /\ spc = "returned"
                      /\ ret = [ok |-> TRUE, used |-> trace[k].selector]

\* The part of C23 that the code keeps: the order of the two mechanisms, the
\* settle delay, the record and the return on either success, and the signals
\* after a success of the primary fill.
C23_PrimaryFillSignals ==
    (call.kind = "fill" /\ spc \in {"trying", "returned"}) =>
        \A k \in DOMAIN trace :
            trace[k].waited = "ok" =>
                /\ trace[k].tried \in {<<"fill">>, <<"fill", "eval_on_selector">>}
                /\ (trace[k].tried = <<"fill">>) => trace[k].success /\ trace[k].signals
                /\ trace[k].success =>
                      /\ trace[k].settled
                      /\ callLog[k] = [selector |-> trace[k].selector, success |-> TRUE]
                      /\ spc = "returned"
                      /\ ret = [ok |-> TRUE, used |-> trace[k].selector]

\* ------------------------------------------------- runs sharing the stats file
\* The table of run r is what it loaded plus the records it made itself.
OwnRecordsOnly(r) ==
    \A s \in Locators :
        /\ Entry(runTable[r], s).tries = Entry(runLoaded[r], s).tries + runRecN[r][s]
        /\ Entry(runTable[r], s).successes = Entry(runLoaded[r], s).successes + runRecS[r][s]

\* The other run.
OtherRun(r) == CHOOSE q \in Runs : q # r
\* Run r has the file to itself: the other run made no record.
Alone(r) == runRecN[OtherRun(r)] = [x \in Locators |-> 0]

\* C24: after every record of a run whose write goes through, the persisted
\* document is the full in-memory table of that run, so that a load right after
\* it loses nothing; a write that fails is swallowed and leaves the in-memory
\* update in place. The run is the only one recording.
C24_PersistedAfterEveryRecord ==
    /\ (lastSave.outcome = "written" /\ runPc[lastSave.run] = "idle" /\ Alone(lastSave.run)) =>
          /\ sharedFile = FileOf(runTable[lastSave.run])
          /\ _load_selector_stats(sharedFile) = runTable[lastSave.run]
    /\ (lastSave.outcome \in {"failed", "torn"} /\ runPc[lastSave.run] = "idle") =>
          /\ lastSave.table = runTable[lastSave.run]
          /\ OwnRecordsOnly(lastSave.run)
          /\ runRecN[lastSave.run] # [x \in Locators |-> 0]

\* Two records by one run, both written: the file holds both entries.
C24_Witness ==
    /\ lastSave.outcome = "written"
    /\ lastSave.run = "run1"
    /\ runRecN["run1"] = [x \in Locators |-> 1]
    /\ DOMAIN sharedFile.table = Locators
    /\ runPc["run2"] = "new"

\* The failed write of C24: the table moved on, the file did not.
C24_FailedWriteWitness ==
    /\ lastSave.outcome = "failed"
    /\ lastSave.run = "run1"
    /\ runRecN["run1"]["#a"] = 2
    /\ sharedFile = FileOf(runLoaded["run1"])
    /\ Entry(runTable["run1"], "#a").tries = Entry(runLoaded["run1"], "#a").tries + 2

\* No write_text is between its open and its write.
NoWriteUnderWay == \A r \in Runs : runPc[r] # "writing"

\* C25: with two runs recording into the same file, the file holds exactly the
\* full table of the run that wrote last, whatever the interleaving: records of
\* the other run can be missing from it; and each run's own table holds what it
\* loaded plus its own records, untouched by the other run.
C25_LastWriterWins ==
    /\ (NoWriteUnderWay /\ lastSave.outcome = "written") =>
          sharedFile = FileOf(lastWritten.table)
    /\ \A r \in Runs : runPc[r] # "new" => OwnRecordsOnly(r)

\* The part of C25 that the code keeps: no run's table is touched by the other.
C25_RunsIsolated ==
    \A r \in Runs : runPc[r] # "new" => OwnRecordsOnly(r)

\* Both runs recorded, and the last write to go through was run2's.
C25_IsolationWitness ==
    /\ NoWriteUnderWay
    /\ runRecN["run1"]["#a"] = 1
    /\ runRecN["run2"]["#b"] = 1
    /\ lastWritten.run = "run2"
    /\ sharedFile = FileOf(runTable["run2"])
    /\ "#a" \in DOMAIN runTable["run1"]

\* --------------------------------------------------------- the frame of record
\* A step that records: the count of records went up.
RecordStep == recN' # recN
\* The step changed the entry of s by one try and at most one success, and
\* nothing else.
TouchesOnly(s) ==
    /\ DOMAIN selector_stats' = DOMAIN selector_stats \cup {s}
    /\ Entry(selector_stats', s).tries = Entry(selector_stats, s).tries + 1
    /\ Entry(selector_stats', s).successes - Entry(selector_stats, s).successes \in {0, 1}
    /\ \A x \in DOMAIN selector_stats \ {s} : selector_stats'[x] = selector_stats[x]

\* C26: record(locator, success) changes only that locator's entry: no entry is
\* removed, every other locator's counters stay, tries goes up by exactly 1 and
\* successes by 1 or 0; over any sequence of operations no counter decreases.
C26_RecordFrame ==
    [][ /\ RecordStep => \E s \in Locators : recN'[s] = recN[s] + 1 /\ TouchesOnly(s)
        /\ (spc # "new" /\ selector_stats' # selector_stats) => RecordStep
        /\ \A x \in Locators :
              /\ Entry(selector_stats', x).tries >= Entry(selector_stats, x).tries
              /\ Entry(selector_stats', x).successes >= Entry(selector_stats, x).successes
        /\ DOMAIN selector_stats \subseteq DOMAIN selector_stats' ]_vars

\* A loaded entry for one locator was left as it was by two records on the other.
C26_Witness ==
    /\ spc = "idle"
    /\ "#b" \in DOMAIN loadedTable
    /\ "#a" \notin DOMAIN loadedTable
    /\ recN["#a"] = 2
    /\ recN["#b"] = 0
    /\ selector_stats["#b"] = loadedTable["#b"]
    /\ selector_stats["#a"].tries = 2

\* A locator the table of the call has no attempt for, and one it has.
NeverAttempted(s) == Entry(callBefore, s).tries = 0
Attempted(s) == Entry(callBefore, s).tries > 0

\* The attempts of the call on the candidate at position i of the order.
AttemptsAt(i) ==
    {k \in DOMAIN trace : ((k - 1) \div call.retries) + 1 = i}

\* Every candidate before position i has failed all its retries.
AllBeforeFailed(i) ==
    /\ Len(trace) >= (i - 1) * call.retries
    /\ \A k \in 1..((i - 1) * call.retries) : ~trace[k].success

\* C27 as stated: in the output of the ordering every never-attempted locator
\* comes after every locator that has been attempted, and a never-attempted
\* locator is still attempted by Fill / Click when all the locators before it
\* fail.
C27_UnknownLocatorsLast ==
    spc \in {"trying", "returned"} =>
        /\ \A i, j \in DOMAIN call.ordered :
              (NeverAttempted(call.ordered[i]) /\ Attempted(call.ordered[j])) => j < i
        /\ \A i \in DOMAIN call.ordered :
              (spc = "returned" /\ call.retries > 0 /\ NeverAttempted(call.ordered[i])
                 /\ AllBeforeFailed(i)) => AttemptsAt(i) # {}

\* C27 amended: a never-attempted locator comes after every locator with at
\* least one recorded success, keeps its input place among the locators whose
\* score is zero (the attempted ones that never succeeded included), is never
\* dropped from the order, and with a positive retry count is attempted when
\* all the locators before it fail.
C27_UnknownAfterSuccessful ==
    spc \in {"trying", "returned"} =>
        /\ \A i, j \in DOMAIN call.ordered :
              (NeverAttempted(call.ordered[i]) /\ Entry(callBefore, call.ordered[j]).successes > 0)
                  => j < i
        /\ LET zero(seq) == SelectSeq(seq, LAMBDA s : ScoreEQ(score(callBefore, s), <<0, 1>>))
           IN  zero(call.ordered) = zero(call.selectors)
        /\ \A s \in Locators : Occurrences(call.ordered, s) = Occurrences(call.selectors, s)
        /\ \A i \in DOMAIN call.ordered :
              (spc = "returned" /\ call.retries > 0 /\ NeverAttempted(call.ordered[i])
                 /\ AllBeforeFailed(i)) => AttemptsAt(i) # {}

\* A never-attempted locator given first is moved behind a locator with a
\* success on record, and is attempted, with success, once that one has failed.
C27_Witness ==
    /\ spc = "returned"
    /\ ret.ok
    /\ Len(call.selectors) = 2
    /\ call.ordered # call.selectors
    /\ NeverAttempted(call.ordered[2])
    /\ Entry(callBefore, call.ordered[1]).successes > 0
    /\ ret.used = call.ordered[2]
    /\ AllBeforeFailed(2)

\* A never-attempted locator stays before an attempted one that never succeeded.
C27_TieWitness ==
    /\ spc = "returned"
    /\ Len(call.ordered) = 2
    /\ NeverAttempted(call.ordered[1])
    /\ Attempted(call.ordered[2])

\* --------------------------------------------------- strategies of a submit
Candidates == {dedup[i] : i \in 1..Len(dedup)}

\* C28: _attempt_submit stops at the first strategy that goes through: at most
\* one strategy ever succeeds and nothing is attempted after it (no later
\* candidate, document or strategy). It answers success only when a click, a
\* scripted click, a key press of the shortcut or form.submit() went through,
\* and names that strategy. It answers failure only when every (document,
\* candidate) pair has been taken up without a click going through,
\* Control+Enter and then plain Enter have both raised, and form.submit() has
\* been called and did not answer true.
C28_SubmitShortCircuit ==
    SubmitStarted =>
        /\ Len(succeeded) <= 1
        /\ succeeded # <<>> =>
              /\ subpc = "done"
              /\ subret.ok
              /\ lastTry = succeeded[1]
        /\ (subpc = "done" /\ subret.ok) =>
              /\ succeeded # <<>>
              /\ subret.used \in Candidates =>
                    /\ succeeded[1] \in {"click", "js click"}
                    /\ visited[Len(visited)][2] = subret.used
                    /\ ~keyboardTried /\ ~formTried
              /\ subret.used = "keyboard" =>
                    /\ succeeded[1] \in {"Control+Enter", "Enter"}
                    /\ succeeded[1] = "Enter" => "Control+Enter" \in failedKinds
                    /\ Len(visited) = Len(frames) * Len(dedup)
                    /\ ~formTried
              /\ subret.used = "form.submit()" =>
                    /\ succeeded[1] = "form.submit()"
                    /\ {"Control+Enter", "Enter"} \subseteq failedKinds
              /\ subret.used \in Candidates \cup {"keyboard", "form.submit()"}
        /\ (subpc = "done" /\ ~subret.ok) =>
              /\ succeeded = <<>>
              /\ Len(visited) = Len(frames) * Len(dedup)
              /\ keyboardTried /\ formTried
              /\ {"Control+Enter", "Enter", "form.submit()"} \subseteq failedKinds

\* Every pair of two documents taken up, clicks and scripted clicks raising,
\* Control+Enter raising, plain Enter going through: success by the keyboard,
\* and the form is never touched.
C28_Witness ==
    /\ subpc = "done"
    /\ subret = [ok |-> TRUE, used |-> "keyboard"]
    /\ succeeded = <<"Enter">>
    /\ {"click", "js click", "Control+Enter"} \subseteq failedKinds
    /\ Len(frames) = 2
    /\ ~formTried

\* Everything attempted and failed: the call answers failure.
C28_FailureWitness ==
    /\ subpc = "done"
    /\ ~subret.ok
    /\ failedKinds = {"click", "js click", "Control+Enter", "Enter", "form.submit()"}

\* ------------------------------------------------------------ the step loop
\* The steps taken up so far are the first steps of the list, in index order,
\* each once.
TakenUpInOrder ==
    /\ Len(stepLog) <= Len(stepSeq)
    /\ \A k \in DOMAIN stepLog :
          /\ stepLog[k].index = k - 1
          /\ stepLog[k].action = stepSeq[k].action

C29_RaiseWitness ==
    /\ epc = "returned"
    /\ execRet = FALSE
    /\ Len(stepSeq) = 2
    /\ Len(stepLog) = 1

\* C30: for every fill step taken up without a raise: the label is searched
\* exactly when the step's own Fill failed and the step has a target name; a
\* label Fill is made, once and on the locator found, exactly when the search
\* found a locator; a primary Fill that succeeded, a step without target, or a
\* search that found nothing means no label Fill; and the step's result is ok
\* exactly when the primary Fill or the label Fill succeeded.
C30_LabelFallback ==
    epc \in {"loop", "returned"} =>
        \A k \in DOMAIN stepLog :
            LET e == stepLog[k]
                st == stepSeq[k]
            IN (e.action = "fill" /\ e.result # "raised") =>
                  /\ e.searched <=> (~e.primary /\ TruthyStr(st.target))
                  /\ Len(e.labelFills) <= 1
                  /\ e.labelFills # <<>> <=> (e.searched /\ e.found # None)
                  /\ e.labelFills # <<>> => e.labelFills[1] = e.found
                  /\ (e.primary \/ ~TruthyStr(st.target) \/ e.found = None) => e.labelFills = <<>>
                  /\ e.labelOk => e.labelFills # <<>>
                  /\ e.result = "ok" <=> (e.primary \/ e.labelOk)
                  /\ e.result \in {"ok", "failed"}

\* The step's own Fill fails, the label's "for" element is found, and the Fill
\* on it goes through: the step is ok.
C30_Witness ==
    /\ stepLog # <<>>
    /\ stepLog[1].action = "fill"
    /\ ~stepLog[1].primary
    /\ stepLog[1].labelFills = <<"#for">>
    /\ stepLog[1].labelOk
    /\ stepLog[1].result = "ok"

\* The search finds nothing: no label Fill, the step failed.
C30_NothingFoundWitness ==
    /\ stepLog # <<>>
    /\ stepLog[1].searched
    /\ stepLog[1].found = None
    /\ stepLog[1].labelFills = <<>>
    /\ stepLog[1].result = "failed"

\* ------------------------------------------------- audit events of the steps
\* The audit log of the call: the events of the steps taken up, in order.
RECURSIVE EventsUpTo(_)
EventsUpTo(k) == IF k = 0 THEN <<>> ELSE EventsUpTo(k - 1) \o stepLog[k].events
AuditEvents == EventsUpTo(Len(stepLog))

Positions(name, i) ==
    {p \in DOMAIN AuditEvents : AuditEvents[p].event = name /\ AuditEvents[p].index = i}

\* The indices never decrease along the log.
IncreasingIndexOrder ==
    \A p, q \in DOMAIN AuditEvents : p < q => AuditEvents[p].index <= AuditEvents[q].index

\* C31 as stated: every step taken up and finished has a start event and later
\* an end event, both with its index, and a fallback event whenever the label
\* fallback was engaged; the events are in increasing index order.
C31_StartEndFallbackEvents ==
    epc \in {"loop", "returned"} =>
        /\ IncreasingIndexOrder
        /\ \A k \in DOMAIN stepLog :
              /\ Cardinality(Positions("step_start", k - 1)) = 1
              /\ Cardinality(Positions("step_end", k - 1)) = 1
              /\ \A p \in Positions("step_start", k - 1), q \in Positions("step_end", k - 1) : p < q
              /\ stepLog[k].searched <=> Positions("step_fill_label_fallback", k - 1) # {}

\* C31 amended: every step taken up has exactly one start event with its index;
\* a click or fill step that does not raise has exactly one end event after it,
\* a step with another action has a step_unknown_action event instead of an end
\* event, a step that raised has neither; the fallback event is logged exactly
\* when a label Fill was made and succeeded, between start and end; all the
\* events of a step precede those of the next, in increasing index order.
C31_StepEventsInOrder ==
    epc \in {"loop", "returned"} =>
        /\ IncreasingIndexOrder
        /\ \A k \in DOMAIN stepLog :
              LET e == stepLog[k]
                  ended == e.action \in {"click", "fill"} /\ e.result # "raised"
              IN
              /\ Cardinality(Positions("step_start", k - 1)) = 1
              /\ Cardinality(Positions("step_end", k - 1)) = IF ended THEN 1 ELSE 0
              /\ Cardinality(Positions("step_unknown_action", k - 1)) =
                    IF e.action \notin {"click", "fill"} THEN 1 ELSE 0
              /\ Positions("step_fill_label_fallback", k - 1) # {} <=>
                    (e.labelFills # <<>> /\ e.labelOk)
              /\ \A p \in Positions("step_start", k - 1) :
                    \A q \in Positions("step_end", k - 1) \cup Positions("step_unknown_action", k - 1)
                             \cup Positions("step_fill_label_fallback", k - 1) : p < q
              /\ \A p \in Positions("step_fill_label_fallback", k - 1) :
                    \A q \in Positions("step_end", k - 1) : p < q
        /\ \A p \in DOMAIN AuditEvents : AuditEvents[p].index \in 0..(Len(stepLog) - 1)

\* Two steps: a fill saved by the label fallback, then a click: start,
\* fallback, end with index 0, then start, end with index 1.
C31_Witness ==
    /\ epc = "returned"
    /\ Len(stepLog) = 2
    /\ stepLog[1].labelOk
    /\ stepLog[2].action = "click"
    /\ Len(AuditEvents) = 5
    /\ AuditEvents[2] = [event |-> "step_fill_label_fallback", index |-> 0]
    /\ AuditEvents[5] = [event |-> "step_end", index |-> 1]

\* A label Fill that failed leaves no fallback event.
C31_SilentFallbackWitness ==
    /\ stepLog # <<>>
    /\ stepLog[1].labelFills # <<>>
    /\ ~stepLog[1].labelOk
    /\ Positions("step_fill_label_fallback", 0) = {}

\* ------------------------------------------------- steps, submit and report
\* execute_steps has returned True: the loop went over every step of a list.
RunReturnedTrue == steps.kind = "list" /\ idx = Len(steps.items)

\* The submit attempt comes after execute_steps and is made whatever it returned.
C32_SubmitAfterRun ==
    /\ submitAttempts <= 1
    /\ pc \in {"exec", "steps"} => submitAttempts = 0
    /\ pc = "submit" => submitAttempts = 0
    /\ pc = "finish" => submitAttempts = 1
    /\ (Finished /\ exitPath = "completed") => submitAttempts = 1

\* C32: the submit attempt is made only after execute_steps has returned, and
\* whatever it returned; a run that gets that far reports ok exactly when
\* execute_steps returned True or the submit went through, failed otherwise,
\* with executed_steps the number of steps execute_steps took up.
C32_ReportAfterSubmit ==
    /\ C32_SubmitAfterRun
    /\ (Finished /\ submitAttempts = 1 /\ exitPath = "completed" /\ NoFault) =>
          /\ IsStatusResult(result)
          /\ result.status \in {"ok", "failed"}
          /\ result.status = "ok" <=> (RunReturnedTrue \/ submitOk)
          /\ result.executed_steps = uiSteps

\* The same with executed_steps read as len(steps).
C32_ReportsListLength ==
    /\ C32_SubmitAfterRun
    /\ (Finished /\ submitAttempts = 1 /\ exitPath = "completed" /\ NoFault) =>
          /\ IsStatusResult(result)
          /\ result.status \in {"ok", "failed"}
          /\ result.status = "ok" <=> (RunReturnedTrue \/ submitOk)
          /\ result.executed_steps = Len(steps.items)

\* ---------------------------------------------------- passcode after login
\* C33: after a passcode prompt the mailbox is asked first and the inbox page
\* is scanned only when the mailbox gave nothing; the passcode fields are
\* touched only with a passcode in hand; with none from either source nothing
\* is filled and the login is reported failed; no mailbox poll begins at or
\* after the deadline, so there are at most timeout_seconds polls of at least
\* one tick, and the polling then gives nothing.
C33_PasscodeSources ==
    gpc # "off" =>
        /\ fetchLog \in {<<>>, <<"imap">>, <<"imap", "inbox">>}
        /\ gpc \in {"poll", "inbox"} => fetchLog = <<"imap">> /\ passcode = None
        /\ passcode = "123456" => fetchLog = <<"imap">>
        /\ passcode = "654321" => fetchLog = <<"imap", "inbox">>
        /\ fillTried => passcode # None
        /\ (gpc = "returned" /\ fetchLog # <<>> /\ passcode = None) =>
              /\ fetchLog = <<"imap", "inbox">>
              /\ ~fillTried
              /\ loginRet = FALSE
        /\ (gpc = "returned" /\ loginRet = TRUE) => (fetchLog = <<>> \/ passcode # None)
        /\ polls > 0 => (imapUser /\ lastPollAt < deadline)
        /\ polls <= timeout_seconds
        /\ (gpc = "poll" /\ ~PollAgain(clock, deadline)) => passcode = None

\* Two polls without a matching mail use up the timeout, the inbox gives
\* nothing either: nothing filled, login failed.
C33_Witness ==
    /\ gpc = "returned"
    /\ polls = 2
    /\ clock >= deadline
    /\ fetchLog = <<"imap", "inbox">>
    /\ passcode = None
    /\ ~fillTried
    /\ loginRet = FALSE

\* The mailbox gives the code: the inbox is never opened.
C33_ImapWitness ==
    /\ gpc = "returned"
    /\ passcode = "123456"
    /\ fetchLog = <<"imap">>
    /\ loginRet = TRUE

\* ---------------------------------------------------------------- termination
\* C34: every run comes to an end with a returned result: ok / failed, an
\* adapter fallback result, or an error.
C34_RunReturnsResult == <>(Finished /\ outcome = "returned")

\* Every run comes to an end, by a return or by an exception that escapes.
C34_RunTerminates == <>Finished

\* The login after the click comes to an end: the polling loop and the wait for
\* the post-login page both give up.
C34_LoginTerminates == <>(gpc = "returned")

\* _attempt_submit comes to an end.
C34_SubmitTerminates == <>(subpc = "done")

\* ------------------------------------------------------ the caller's intent
\* The run is at execute_steps or after it, or on its way out.
PastStepSelection ==
    pc \in {"check_steps", "exec", "submit", "finish", "close", "pw_exit", "boundary",
            "shim_return", "shim_except", "done"}

\* C35: the intent changes only where the inferred fields are attached, before
\* execute_steps begins, and only by gaining those fields: its steps stay as
\* they were. From execute_steps on, and in every step that calls an adapter,
\* the intent is left as it is.
C35_IntentFrame ==
    [][ /\ intent' # intent =>
              /\ pc = "steps"
              /\ uiSteps = 0 /\ submitAttempts = 0
              /\ inferCalls' = inferCalls + 1
              /\ inferReply'.fields = "map"
              /\ intent'.steps = intent.steps
              /\ intent'.fields = intent.fields \cup InferredFields
        /\ PastStepSelection => intent' = intent
        /\ adapterLog' # adapterLog => intent' = intent ]_vars

\* The inferred fields were attached, the inferred steps executed and the
\* submit attempted: the intent still has no steps of its own.
C35_Witness ==
    /\ Finished
    /\ exitPath = "completed"
    /\ "description" \in intent.fields
    /\ intent.steps = PyNone
    /\ uiSteps > 0
    /\ submitAttempts = 1

\* ---------------------------------------------------------------- C36
\* The five steps in their order: open new ticket, fill requester, fill
\* subject, fill description, submit.
MockStepOrder(b) ==
    /\ Len(b.steps) = 5
    /\ [k \in 1..5 |-> <<b.steps[k].action, b.steps[k].target>>] =
         << <<"click", None>>, <<"fill", "requester">>, <<"fill", "subject">>,
            <<"fill", "description">>, <<"click", None>> >>
    /\ b.steps[1].explain = "open new ticket panel"
    /\ b.steps[5].explain = "submit ticket"

\* The intent execute_steps resolves a generated step against.
MockIntent(b) == [subject |-> parsedIn.subject, fields |-> [present |-> TRUE, map |-> b.fields]]

\* Every fill step's value source names a generated field, and resolves to
\* that field's value.
MockSourcesPresent(b) ==
    \A k \in 1..Len(b.steps) :
        b.steps[k].action = "fill" =>
            /\ Len(b.steps[k].value_source) = 3
            /\ b.steps[k].value_source[1] = "fields"
            /\ b.steps[k].value_source[2] \in DOMAIN b.fields
            /\ b.steps[k].value_source[3] = "value"
            /\ FilledValue(b.steps[k], MockIntent(b)) = b.fields[b.steps[k].value_source[2]].value

\* C36: with the deterministic-mock flag set the LLM is never called and the
\* inference returns nothing; the rule-based generator supplies the steps and
\* fields of the parsed intent, every call on the same parse yields the same
\* five steps in the fixed order, and every fill step's value source refers to
\* a field present in the generated fields.
C36_MockGenerator ==
    /\ useMock => (llmAsked = 0 /\ inferOut = NoBundle)
    /\ (useMock /\ mpc \in {"parsed", "inferred"}) =>
          (bundles # <<>> /\ finalIntent = bundles[Len(bundles)])
    /\ \A k \in 1..Len(bundles) :
          /\ bundles[k] = bundles[1]
          /\ DOMAIN bundles[k] = {"steps", "fields"}
          /\ MockStepOrder(bundles[k])
          /\ MockSourcesPresent(bundles[k])

\* Reached: the flag is set, the same parse with a requester email was put
\* through the generator twice, and the inference call has returned.
C36_Witness ==
    /\ useMock
    /\ mpc = "inferred"
    /\ Len(bundles) = 2
    /\ parsedIn.requester.email = "alice@example.com"
    /\ parsedIn.description = None
    /\ parsedIn.comment = "see above"
    /\ finalIntent.fields["description"].value = "see above"

\* Reached: without the flag the LLM is asked and no steps were generated.
C36_FlagOffWitness == ~useMock /\ mpc = "inferred" /\ llmAsked = 1 /\ bundles = <<>>

\* ---------------------------------------------------------------- C37
\* The locators that come up in the order only after position i.
OnlyAfter(i) ==
    {call.ordered[j] : j \in (i + 1)..Len(call.ordered)} \ {call.ordered[j] : j \in 1..i}

\* C37: a successful attempt is the last attempt of the call: Fill / Click
\* returns Success at once with the locator of that attempt, which is one of
\* the input candidates; no retry and no candidate is attempted after it, and
\* the entries (in memory and in the file) of the locators ordered after it
\* are what they were before the call.
C37_SuccessReturnsAtOnce ==
    /\ \A k \in DOMAIN trace :
          trace[k].success =>
             /\ k = Len(trace)
             /\ spc = "returned"
             /\ ret = [ok |-> TRUE, used |-> trace[k].selector]
             /\ call.ordered[call.i] = ret.used
             /\ Len(trace) = (call.i - 1) * call.retries + call.attempt
    /\ (spc = "returned" /\ ret.ok) =>
          /\ trace # <<>>
          /\ trace[Len(trace)].success
          /\ \E j \in DOMAIN call.selectors : call.selectors[j] = ret.used
          /\ \A x \in OnlyAfter(call.i) :
                /\ recN[x] = 0
                /\ Entry(selector_stats, x) = Entry(callBefore, x)
                /\ Entry(statsFile.table, x) = Entry(callBefore, x)

\* Reached: the first attempt on the first of two different candidates
\* succeeds with a retry and a candidate still left, and the call has returned.
C37_Witness ==
    /\ spc = "returned"
    /\ ret.ok
    /\ call.retries = 2
    /\ Len(call.ordered) = 2
    /\ call.ordered[1] # call.ordered[2]
    /\ call.i = 1
    /\ call.attempt = 1
    /\ Len(trace) = 1
    /\ Entry(callBefore, call.ordered[2]).tries > 0
    /\ statsFile = FileOf(selector_stats)
    /\ selector_stats # callBefore

\* Reached: the second candidate succeeds on its retry after three failures.
C37_LateSuccessWitness ==
    /\ spc = "returned"
    /\ ret.ok
    /\ call.i = 2
    /\ call.attempt = 2
    /\ Len(trace) = 4

\* ---------------------------------------------------------------- C38
\* C38: within one top-level create_ticket call the fallback adapter's
\* create_ticket is invoked at most once, on every path, a fault after an
\* earlier fallback attempt included.
C38_AdapterAtMostOnce == Len(adapterLog) <= 1

\* Holds: the adapter is never invoked more than twice, and a second
\* invocation is always the except clause's, after a fallback site returned.
C38_SecondCallIsTheBoundarys ==
    /\ Len(adapterLog) <= 2
    /\ Len(adapterLog) = 2 =>
          (boundaryRuns = 1 /\ exitPath \in {"sso_timeout", "login_failed", "no_steps"})

\* ---------------------------------------------------------------- C39
\* The run has driven the form: a step was executed and a submit attempted.
DroveTheForm == uiSteps > 0 /\ submitAttempts > 0

\* C39: a single run never both drives the UI form and invokes the API
\* adapter: once step execution has started no path leads to an adapter
\* create_ticket call.
C39_FormOrAdapterNotBoth == DroveTheForm => adapterLog = <<>>

\* Holds: the adapter is invoked after the form was driven only by the except
\* clause, on a fault after the submit attempt.
C39_OnlyAfterFault ==
    (DroveTheForm /\ adapterLog # <<>>) =>
        (boundaryRuns = 1 /\ submitAttempts = 1 /\ Len(adapterLog) = 1)

\* ---------------------------------------------------------------- C40
\* C40: a dry run launches no browser, executes no step, leaves the intent's
\* steps and fields as the caller gave them, and invokes neither the fallback
\* adapter nor the inference collaborator.
C40_DryRunInvokesNothing ==
    dry_run =>
        /\ adapterLog = <<>>
        /\ inferCalls = 0
        /\ llmCalls = 0
        /\ uiSteps = 0
        /\ submitAttempts = 0
        /\ browser = "none"

\* Holds: a dry run invokes the adapter only from the shim's except clause,
\* when the agent's create_ticket raised before its dry-run check.
C40_DryRunAdapterOnlyOnEntryFault ==
    dry_run =>
        /\ inferCalls = 0 /\ llmCalls = 0 /\ uiSteps = 0 /\ submitAttempts = 0
        /\ browser = "none"
        /\ adapterLog # <<>> => (exitPath = "agent_raised" /\ Len(adapterLog) = 1)
        /\ (Finished /\ exitPath = "dry_run") => (outcome = "returned" /\ adapterLog = <<>>)

====
